---- MODULE Spec2Model ----
(***************************************************************************)
(* A model of the MIRA importers (src/mira/sources) and of the             *)
(* constant-concept normalisation pass of the SBML processor.              *)
(*                                                                         *)
(* Python values are represented as follows.                               *)
(*   - None / an absent optional value is the empty sequence << >>, a      *)
(*     present value x is the one-element sequence <<x>>.                  *)
(*   - a dict is a sequence of <<key, value>> pairs with distinct keys, in *)
(*     insertion order (Python dicts iterate in insertion order); equality *)
(*     of dicts ignores the order (DictEq).                                *)
(*   - a Template instance is an entry of `heap`; its identity is its      *)
(*     index (oid).  A TemplateModel holds a list of oids.                 *)
(*   - a sympy rate law is a monomial coef * prod(symbol ^ exponent).      *)
(***************************************************************************)
EXTENDS Integers, Sequences, FiniteSets, TLC

VARIABLES
    grounding_map,   \* processor.py:845, the process-wide curated groundings
    sbml_model,      \* the libsbml document handed to SbmlProcessor
    reporter_ids,    \* SbmlProcessor.reporter_ids
    bilayer_json,    \* the bilayer document handed to template_model_from_bilayer
    species_arg,     \* the species handed to _extract_concept
    heap,            \* every Template instance constructed so far
    template_model,  \* the TemplateModel being built / returned
    emitted,         \* the local list `templates` of extract_model at line 315
    before,          \* the TemplateModel and heap as they were when the last call started
    result,          \* the value returned by the last call of a function that returns no model
    calls,           \* number of calls of replace_constant_concepts made on template_model
    log,             \* what the reaction loop of extract_model wrote to the logger,
                     \* reaction by reaction
    compiled_model,  \* the mira.modeling.Model handed to the Petri-net exporters
    petri_net,       \* the PetriNetModel constructed from compiled_model, if any
    askenet_net,     \* the AskeNetPetriNetModel constructed from compiled_model, if any
    pysd_model,      \* the stock/flow document handed to template_model_from_pysd_model
    returned,        \* the Concept object the caller of _extract_concept holds, with the
                     \* identity of its identifiers and context dicts
    pc               \* "input": the document is being written, "done": the call returned,
                     \* "raised": the call raised

vars == <<grounding_map, sbml_model, reporter_ids, bilayer_json, species_arg, heap,
          template_model, emitted, before, result, calls, log, compiled_model,
          petri_net, askenet_net, pysd_model, returned, pc>>

-----------------------------------------------------------------------------
(* Python values *)

None == << >>

\* no stock/flow document
NoPysdModel == [stocks |-> << >>, auxiliaries |-> << >>, constants |-> << >>]

\* no Model has been handed to an exporter
NoCompiledModel == [variables |-> << >>, parameters |-> << >>, transitions |-> << >>]

Some(x) == <<x>>

IsNone(o) == o = << >>

Range(s) == {s[i] : i \in DOMAIN s}

RECURSIVE Pow(_, _)
Pow(b, e) == IF e = 0 THEN 1 ELSE b * Pow(b, e - 1)

(* dict: a sequence of <<key, value>> pairs with distinct keys *)
EmptyDict == << >>

DictKeys(d) == {d[i][1] : i \in DOMAIN d}

DictHas(d, k) == k \in DictKeys(d)

DictVal(d, k) == d[CHOOSE i \in DOMAIN d : d[i][1] = k][2]

\* d[k] = v: an existing key keeps its place, a new key goes last
DictSet(d, k, v) ==
    IF DictHas(d, k)
    THEN [i \in DOMAIN d |-> IF d[i][1] = k THEN <<k, v>> ELSE d[i]]
    ELSE Append(d, <<k, v>>)

\* d.pop(k)
DictPop(d, k) == SelectSeq(d, LAMBDA kv : kv[1] # k)

\* dict(list of pairs)
RECURSIVE DictFromList(_)
DictFromList(l) ==
    IF l = << >> THEN EmptyDict
    ELSE LET n == Len(l)
         IN DictSet(DictFromList(SubSeq(l, 1, n - 1)), l[n][1], l[n][2])

\* d1 == d2 in Python
DictEq(d1, d2) == Range(d1) = Range(d2)

-----------------------------------------------------------------------------
(* Strings.  TLC cannot look inside a string, so the character tests the   *)
(* code makes are membership tests in the sets of the strings that pass.   *)

NamesWithParen == {"E(1)"}

NamesWithDashOrPlus == {"A-B"}

IdsWithCumulative == {"x_cumulative"}

\* '(' in name
HasParen(name) == name \in NamesWithParen

\* '-' in name or '+' in name
HasDashOrPlus(name) == name \in NamesWithDashOrPlus

\* 'cumulative' in species_id
HasCumulative(id) == id \in IdsWithCumulative

\* Python's order of the species ids used here (str.__lt__: upper case first)
SpeciesIdOrder == <<"S", "s2", "s3", "s5", "s6", "x_cumulative">>

\* sorted(S) for a set S of species ids
SortedIds(S) == SelectSeq(SpeciesIdOrder, LAMBDA x : x \in S)

-----------------------------------------------------------------------------
(* Concept (mira.metamodel): name, identifiers, context *)

Concept(name, identifiers, context) ==
    [name |-> name, identifiers |-> identifiers, context |-> context]

\* pydantic equality of two Concepts: field by field
ConceptEq(a, b) ==
    /\ a.name = b.name
    /\ DictEq(a.identifiers, b.identifiers)
    /\ DictEq(a.context, b.context)

\* Python's order of the ontology prefixes used here
PrefixOrder == <<"biomodels.species", "ido", "ncit">>

\* Concept.get_curie(): the identifier of the first priority prefix ('ido'),
\* else the first identifier in sorted order, else no prefix at all
get_curie(concept) ==
    LET ids == concept.identifiers
        present == SelectSeq(PrefixOrder, LAMBDA p : DictHas(ids, p))
    IN IF DictHas(ids, "ido") THEN <<"ido", DictVal(ids, "ido")>>
       ELSE IF present # << >> THEN <<present[1], DictVal(ids, present[1])>>
       ELSE <<"", "">>

-----------------------------------------------------------------------------
(* Curies of the annotations: <<prefix, local id>> *)

\* v.startswith('000')
IdsStarting000 == {"0000463", "0000468", "0000511", "0000514", "0000569", "0000573",
                   "0000592", "0000597", "0000621"}

\* v.startswith('C')
IdsStartingC == {"C101887", "C168970", "C171133", "C171549", "C25179", "C28554",
                 "C3833", "C49508", "C53511"}

\* Python's order of the (prefix, id) tuples used here
CurieOrder ==
    << <<"ido", "0000463">>, <<"ido", "0000468">>, <<"ido", "0000511">>,
       <<"ido", "0000514">>, <<"ido", "0000569">>, <<"ido", "0000573">>,
       <<"ido", "0000592">>, <<"ido", "0000597">>, <<"ido", "0000621">>,
       <<"ido", "C101887">>, <<"ido", "C49508">>,
       <<"ncit", "0000511">>, <<"ncit", "0000514">>,
       <<"ncit", "C101887">>, <<"ncit", "C168970">>, <<"ncit", "C171133">>,
       <<"ncit", "C171549">>, <<"ncit", "C25179">>, <<"ncit", "C28554">>,
       <<"ncit", "C49508">>, <<"ncit", "C53511">> >>

\* sorted(l) for a list of curies
RECURSIVE SortByOrder(_, _)
SortByOrder(order, l) ==
    IF order = << >> THEN << >>
    ELSE SelectSeq(l, LAMBDA c : c = Head(order)) \o SortByOrder(Tail(order), l)

SortedCuries(l) == SortByOrder(CurieOrder, l)

RECURSIVE Reverse(_)
Reverse(l) == IF l = << >> THEN << >> ELSE Append(Reverse(Tail(l)), Head(l))

\* x in l
InList(l, x) == x \in Range(l)

\* l.remove(x): the first occurrence goes
ListRemove(l, x) ==
    IF ~InList(l, x) THEN l
    ELSE LET i == CHOOSE j \in DOMAIN l : l[j] = x /\ \A h \in 1..(j - 1) : l[h] # x
         IN SubSeq(l, 1, i - 1) \o SubSeq(l, i + 1, Len(l))

\* ":".join(curie)
JoinCurie(c) == c[1] \o ":" \o c[2]

-----------------------------------------------------------------------------
(* Species of the SBML document: id, name, initial_concentration and the   *)
(* parsed annotation: annotated (the annotation string is not empty),      *)
(* is / properties / is_version_of (the curies the three XPath queries of  *)
(* _extract_concept find, in document order).                              *)

Species(id, name, conc, annotated, is, properties, is_version_of) ==
    [id |-> id, name |-> name, initial_concentration |-> conc, annotated |-> annotated,
     is |-> is, properties |-> properties, is_version_of |-> is_version_of]

\* the loop of grounding_normalize over deepcopy(concept.identifiers).items()
RECURSIVE normalize_swapped(_, _)
normalize_swapped(items, ids) ==
    IF items = << >> THEN ids
    ELSE LET k == Head(items)[1]
             v == Head(items)[2]
             ids2 == IF k = "ncit" /\ v \in IdsStarting000
                     THEN DictSet(DictPop(ids, k), "ido", v)
                     ELSE IF k = "ido" /\ v \in IdsStartingC
                     THEN DictSet(DictPop(ids, k), "ncit", v)
                     ELSE ids
         IN normalize_swapped(Tail(items), ids2)

\* normalize_special_cases forgetting the context test of its second case: the
\* context of every concept whose curie is ido:0000514 is emptied
normalize_special_cases_any_context(c) ==
    IF get_curie(c)[1] = "" /\ DictEq(c.context, << <<"property", "ido:0000621">> >>)
    THEN [c EXCEPT !.identifiers = DictSet(c.identifiers, "ido", "0000592"),
                   !.context = EmptyDict]
    ELSE IF get_curie(c) = <<"ido", "0000514">>
    THEN [c EXCEPT !.context = EmptyDict]
    ELSE IF get_curie(c) = <<"ncit", "C171133">>
            /\ DictEq(c.context, << <<"property", "ido:0000621">> >>)
    THEN [c EXCEPT !.identifiers = << <<"ido", "0000592">> >>, !.context = EmptyDict]
    ELSE IF get_curie(c) = <<"ncit", "C168970">>
    THEN [c EXCEPT !.identifiers = << <<"ncit", "C28554">> >>]
    ELSE c

\* lines 749-765 of grounding_normalize, c the concept after the loop
normalize_special_cases(c) ==
    IF get_curie(c)[1] = "" /\ DictEq(c.context, << <<"property", "ido:0000621">> >>)
    THEN [c EXCEPT !.identifiers = DictSet(c.identifiers, "ido", "0000592"),
                   !.context = EmptyDict]
    ELSE IF get_curie(c) = <<"ido", "0000514">>
            /\ DictEq(c.context, << <<"property", "ido:0000468">> >>)
    THEN [c EXCEPT !.context = EmptyDict]
    ELSE IF get_curie(c) = <<"ncit", "C171133">>
            /\ DictEq(c.context, << <<"property", "ido:0000621">> >>)
    THEN [c EXCEPT !.identifiers = << <<"ido", "0000592">> >>, !.context = EmptyDict]
    ELSE IF get_curie(c) = <<"ncit", "C168970">>
    THEN [c EXCEPT !.identifiers = << <<"ncit", "C28554">> >>]
    ELSE c

grounding_normalize(concept) ==
    normalize_special_cases(
        [concept EXCEPT
            !.identifiers = normalize_swapped(concept.identifiers, concept.identifiers)])

\* the steps of lines 645-714 work on s = [list, context]
\* if x in list: list.remove(x); list.append(y)
replace_curie(s, x, y) ==
    IF InList(s.list, x) THEN [s EXCEPT !.list = Append(ListRemove(s.list, x), y)] ELSE s

\* if x in list: list.remove(x)
remove_curie(s, x) ==
    IF InList(s.list, x) THEN [s EXCEPT !.list = ListRemove(s.list, x)] ELSE s

\* if x in list and y in list: list.remove(x)
remove_if_both(s, x, y) ==
    IF InList(s.list, x) /\ InList(s.list, y)
    THEN [s EXCEPT !.list = ListRemove(s.list, x)] ELSE s

\* if x in list and y in list: list.remove(x); context[key] = value
reclassify_if_both(s, x, y, key, value) ==
    IF InList(s.list, x) /\ InList(s.list, y)
    THEN [list |-> ListRemove(s.list, x), context |-> DictSet(s.context, key, value)]
    ELSE s

\* lines 645-668: the fix-ups of the bqbiol:is identifiers; [list, context]
fix_identifiers_list(identifiers_list) ==
    remove_if_both(
      reclassify_if_both(
        remove_if_both(
          reclassify_if_both(
            remove_curie(
              replace_curie([list |-> identifiers_list, context |-> EmptyDict],
                            <<"ido", "C101887">>, <<"ncit", "C101887">>),
              <<"ncit", "C171133">>),
            <<"ido", "0000569">>, <<"ido", "0000511">>, "disease_status", "ncit:C3833"),
          <<"ido", "0000514">>, <<"ido", "0000597">>),
        <<"ncit", "C53511">>, <<"ncit", "C25179">>, "disease_status", "ncit:C53511"),
      <<"ncit", "C168970">>, <<"ncit", "C28554">>)

\* lines 675-682: one context entry per rdf property, in sorted order
RECURSIVE add_properties(_, _, _)
add_properties(props, idx, context) ==
    IF idx > Len(props) THEN context
    ELSE add_properties(
             props, idx + 1,
             DictSet(context,
                     IF idx = 1 THEN "property" ELSE "property" \o ToString(idx - 1),
                     IF props[idx][1] = "ncit" /\ props[idx][2] \in IdsStarting000
                     THEN "ido:" \o props[idx][2]
                     ELSE IF props[idx][1] = "ido" /\ props[idx][2] \in IdsStartingC
                     THEN "ncit:" \o props[idx][2]
                     ELSE JoinCurie(props[idx])))

\* lines 695-702: remap asymptomatic / symptomatic to infected with a status
remap_inconsistent(s) ==
    IF InList(s.list, <<"ido", "0000569">>)
    THEN [list |-> Append(ListRemove(s.list, <<"ido", "0000569">>), <<"ido", "0000511">>),
          context |-> DictSet(s.context, "disease_status", "ncit:C3833")]
    ELSE IF InList(s.list, <<"ido", "0000573">>)
    THEN [list |-> Append(ListRemove(s.list, <<"ido", "0000573">>), <<"ido", "0000511">>),
          context |-> DictSet(s.context, "disease_status", "ncit:C25269")]
    ELSE s

\* lines 704-712: transmissibility becomes context
transmissibility_to_context(s) ==
    IF ~InList(s.list, <<"ido", "0000463">>) THEN s
    ELSE IF InList(s.list, <<"ncit", "C49508">>)
    THEN [list |-> ListRemove(ListRemove(s.list, <<"ido", "0000463">>),
                              <<"ncit", "C49508">>),
          context |-> DictSet(s.context, "transmissibility", "ncit:C49508")]
    ELSE IF InList(s.list, <<"ncit", "C171549">>)
    THEN [list |-> ListRemove(ListRemove(s.list, <<"ido", "0000463">>),
                              <<"ncit", "C171549">>),
          context |-> DictSet(s.context, "transmissibility", "ncit:C171549")]
    ELSE s

\* lines 685-714: the fallback on the bqbiol:isVersionOf identifiers; [list, context]
fix_version_elements(versions, context) ==
    transmissibility_to_context(
      remap_inconsistent(
        remove_curie([list |-> Reverse(SortedCuries(versions)), context |-> context],
                     <<"ncit", "C171133">>)))

\* the name _extract_concept works with: the id stands in for a name with '('
species_name_of(species) == IF HasParen(species.name) THEN species.id ELSE species.name

\* lines 716-724: the Concept of s = [list, context], list the identifiers as a dict
built_concept(species, model_id, s) ==
    Concept(IF species_name_of(species) # "" THEN species_name_of(species)
            ELSE species.id,
            IF model_id # ""
            THEN DictSet(s.list, "biomodels.species", model_id \o ":" \o species.id)
            ELSE s.list,
            s.context)

\* lines 716-726: the Concept of s, normalised
finish_concept(species, model_id, s) ==
    grounding_normalize(built_concept(species, model_id, s))

\* lines 683-714: the identifiers fall back on isVersionOf when there are none
with_fallback(species, s) ==
    IF s.list = EmptyDict
    THEN [list |-> DictFromList(fix_version_elements(species.is_version_of,
                                                     s.context).list),
          context |-> fix_version_elements(species.is_version_of, s.context).context]
    ELSE s

\* lines 670-682, fixed = [list, context] after the fix-ups: [raised, concept]
concept_from_fixed(species, model_id, fixed) ==
    IF Len(DictFromList(fixed.list)) # Len(fixed.list)
    THEN [raised |-> TRUE, concept |-> Concept(species_name_of(species), EmptyDict, EmptyDict)]
    ELSE [raised |-> FALSE,
          concept |->
              finish_concept(
                  species, model_id,
                  with_fallback(
                      species,
                      [list |-> DictFromList(fixed.list),
                       context |-> add_properties(SortedCuries(species.properties), 1,
                                                  fixed.context)]))]

\* lines 617-726 of _extract_concept: the Concept built from the annotations
concept_from_annotations(species, model_id) ==
    IF ~species.annotated
    THEN [raised |-> FALSE, concept |-> Concept(species_name_of(species), EmptyDict, EmptyDict)]
    ELSE concept_from_fixed(species, model_id, fix_identifiers_list(species.is))

\* the key under which _extract_concept looks the species up in grounding_map
grounding_key(species, model_id) == <<model_id, species_name_of(species)>>

\* _extract_concept consulting the curated grounding map only for species
\* without annotations
extract_concept_annotations_first(species, model_id, gmap) ==
    IF ~species.annotated /\ DictHas(gmap, <<model_id, species_name_of(species)>>)
    THEN [raised |-> FALSE,
          concept |-> Concept(species_name_of(species),
                              DictVal(gmap, <<model_id, species_name_of(species)>>)[1],
                              DictVal(gmap, <<model_id, species_name_of(species)>>)[2])]
    ELSE concept_from_annotations(species, model_id)

\* the dict is handed on as it is: its identity stays
handed_on(place) == place

\* copy.deepcopy(d) for a dict d of grounding_map: a new dict. The identity
\* of a dict is the entry of grounding_map that holds it, None for a dict
\* that no entry holds
copy_deepcopy(place) == None

\* lines 603-613 and the rest of _extract_concept: the identity of the
\* identifiers and the context of the returned Concept
returned_dicts(species, model_id, gmap) ==
    IF DictHas(gmap, grounding_key(species, model_id))
    THEN [identifiers |-> copy_deepcopy(Some(grounding_key(species, model_id))),
          context |-> copy_deepcopy(Some(grounding_key(species, model_id)))]
    ELSE [identifiers |-> None, context |-> None]

\* _extract_concept(species, model_id=model_id): [raised, concept]
extract_concept(species, model_id, gmap) ==
    IF DictHas(gmap, grounding_key(species, model_id))
    THEN [raised |-> FALSE,
          concept |-> Concept(species_name_of(species),
                              DictVal(gmap, grounding_key(species, model_id))[1],
                              DictVal(gmap, grounding_key(species, model_id))[2])]
    ELSE concept_from_annotations(species, model_id)

-----------------------------------------------------------------------------
(* sympy expressions: the monomial coef * prod(symbol ^ pw[symbol]) *)

Expr(coef, pw) == [coef |-> coef, pw |-> pw]

\* expr.free_symbols / variables_from_sympy_expr(expr): the names of the symbols
variables_from_sympy_expr(expr) == DOMAIN expr.pw

\* names sympify() reads as one symbol, and names it reads as an expression
\* of other symbols ('A-B' is A - B); sympify('') raises
ExprNames == NamesWithDashOrPlus

\* expr.subs(name, value) with a string name: [raised, expr]
sympy_subs(expr, name, value) ==
    IF name = "" THEN [raised |-> TRUE, expr |-> expr]
    ELSE IF name \in ExprNames \/ name \notin DOMAIN expr.pw
    THEN [raised |-> FALSE, expr |-> expr]
    ELSE [raised |-> FALSE,
          expr |-> Expr(expr.coef * Pow(value, expr.pw[name]),
                        [n \in (DOMAIN expr.pw) \ {name} |-> expr.pw[n]])]

-----------------------------------------------------------------------------
(* Templates (mira.metamodel.templates) and the TemplateModel *)

Template(cls, subject, outcome, controller, controllers, rate_law) ==
    [cls |-> cls, subject |-> subject, outcome |-> outcome, controller |-> controller,
     controllers |-> controllers, rate_law |-> rate_law]

\* the class names by kind and number of controllers
TemplateClass(kind, m) ==
    IF m = 0 THEN "Natural" \o kind
    ELSE IF m = 1 THEN "Controlled" \o kind
    ELSE "GroupedControlled" \o kind

ConversionClasses ==
    {"NaturalConversion", "ControlledConversion", "GroupedControlledConversion"}

ProductionClasses ==
    {"NaturalProduction", "ControlledProduction", "GroupedControlledProduction"}

DegradationClasses ==
    {"NaturalDegradation", "ControlledDegradation", "GroupedControlledDegradation"}

ControlledClasses ==
    {"ControlledConversion", "ControlledProduction", "ControlledDegradation"}

GroupedClasses ==
    {"GroupedControlledConversion", "GroupedControlledProduction",
     "GroupedControlledDegradation"}

\* Template.get_concepts_by_role(): the roles the class declares
get_concepts_by_role(t) ==
    [subject |-> IF t.cls \in ProductionClasses THEN << >> ELSE t.subject,
     outcome |-> IF t.cls \in DegradationClasses THEN << >> ELSE t.outcome,
     controller |-> IF t.cls \in ControlledClasses THEN t.controller ELSE << >>,
     controllers |-> IF t.cls \in GroupedClasses THEN t.controllers ELSE << >>]

\* the controllers of a template, whichever field holds them
ControllersOf(t) == t.controller \o t.controllers

TemplateModel(templates, parameters, initials) ==
    [templates |-> templates, parameters |-> parameters, initials |-> initials]

EmptyModel == TemplateModel(<< >>, EmptyDict, EmptyDict)

Parameter(name, value) == [name |-> name, value |-> value]

Initial(concept, value) == [concept |-> concept, value |-> value]

\* the Template instances of a model, in order
TemplatesOf(h, tm) == [i \in DOMAIN tm.templates |-> h[tm.templates[i]]]

-----------------------------------------------------------------------------
(* Constant-concept elimination, processor.py:447-517 *)

Names(concepts) == {concepts[i].name : i \in DOMAIN concepts}

find_constant_concepts(h, tm) ==
    LET ts == TemplatesOf(h, tm)
        changing(t) == LET r == get_concepts_by_role(t)
                       IN Names(r.subject) \cup Names(r.outcome)
        all(t) == LET r == get_concepts_by_role(t)
                  IN Names(r.subject) \cup Names(r.outcome) \cup Names(r.controller)
                         \cup Names(r.controllers)
        changing_concepts == UNION {changing(ts[i]) : i \in DOMAIN ts}
        all_concepts == UNION {all(ts[i]) : i \in DOMAIN ts}
    IN all_concepts \ changing_concepts

\* a new Template instance with the substituted rate law: [heap, ret, raised]
rewritten(h, t, new_template, controller_name, value) ==
    LET sub == IF t.rate_law = None THEN [raised |-> TRUE, expr |-> None]
               ELSE sympy_subs(t.rate_law[1], controller_name, value)
    IN IF sub.raised
       THEN [heap |-> Append(h, new_template), ret |-> None, raised |-> TRUE]
       ELSE [heap |-> Append(h, [new_template EXCEPT !.rate_law = Some(sub.expr)]),
             ret |-> Some(Len(h) + 1), raised |-> FALSE]

\* replace_controller_by_constant rewriting the template h[oid] in place
\* instead of building a new instance
replace_controller_by_constant_in_place(h, oid, controller_name, value) ==
    IF h[oid].rate_law = None
    THEN [heap |-> h, ret |-> None, raised |-> FALSE]
    ELSE IF h[oid].cls = "ControlledConversion"
               /\ h[oid].controller[1].name = controller_name
    THEN [heap |-> [h EXCEPT ![oid] =
                       Template("NaturalConversion", @.subject, @.outcome, None, << >>,
                                Some(sympy_subs(@.rate_law[1], controller_name,
                                                value).expr))],
          ret |-> Some(oid), raised |-> FALSE]
    ELSE IF h[oid].cls = "GroupedControlledConversion"
    THEN [heap |-> [h EXCEPT ![oid] =
                       Template(IF Len(@.controllers) > 2
                                THEN "GroupedControlledConversion"
                                ELSE "ControlledConversion",
                                @.subject, @.outcome,
                                IF Len(@.controllers) > 2 THEN None
                                ELSE Some(@.controllers[1]),
                                IF Len(@.controllers) > 2
                                THEN SelectSeq(@.controllers,
                                               LAMBDA c : c.name # controller_name)
                                ELSE << >>,
                                Some(sympy_subs(@.rate_law[1], controller_name,
                                                value).expr))],
          ret |-> Some(oid), raised |-> FALSE]
    ELSE [heap |-> h, ret |-> None, raised |-> FALSE]

\* replace_controller_by_constant(template, controller_name, value) for the
\* template h[oid]: [heap, ret, raised], ret the oid of the new template or None
replace_controller_by_constant(h, oid, controller_name, value) ==
    LET t == h[oid]
    IN IF t.cls = "ControlledConversion"
       THEN IF t.controller[1].name = controller_name
            THEN rewritten(h, t,
                           Template("NaturalConversion", t.subject, t.outcome,
                                    None, << >>, None),
                           controller_name, value)
            ELSE [heap |-> h, ret |-> None, raised |-> FALSE]
       ELSE IF t.cls = "GroupedControlledConversion"
       THEN IF Len(t.controllers) > 2
            THEN rewritten(h, t,
                           Template("GroupedControlledConversion", t.subject, t.outcome,
                                    None,
                                    SelectSeq(t.controllers,
                                              LAMBDA c : c.name # controller_name),
                                    None),
                           controller_name, value)
            ELSE rewritten(h, t,
                           Template("ControlledConversion", t.subject, t.outcome,
                                    Some(t.controllers[1]), << >>, None),
                           controller_name, value)
       ELSE [heap |-> h, ret |-> None, raised |-> FALSE]

\* the loop of lines 475-483 over template_model.templates: [heap, templates, raised]
RECURSIVE replace_in_templates(_, _, _, _, _)
replace_in_templates(h, todo, new_templates, constant_concept, initial_val) ==
    IF todo = << >> THEN [heap |-> h, templates |-> new_templates, raised |-> FALSE]
    ELSE LET r == replace_controller_by_constant(h, Head(todo), constant_concept,
                                                 initial_val)
         IN IF r.raised THEN [heap |-> r.heap, templates |-> new_templates, raised |-> TRUE]
            ELSE replace_in_templates(
                     r.heap, Tail(todo),
                     Append(new_templates, IF r.ret = None THEN Head(todo) ELSE r.ret[1]),
                     constant_concept, initial_val)

\* the loop of replace_constant_concepts over the constant concepts, taken in
\* the order `order` (the iteration order of a Python set): [heap, model, raised]
RECURSIVE replace_each_constant(_, _, _)
replace_each_constant(h, tm, order) ==
    IF order = << >> THEN [heap |-> h, model |-> tm, raised |-> FALSE]
    ELSE LET constant_concept == Head(order)
             initial_val == IF DictHas(tm.initials, constant_concept)
                            THEN DictVal(tm.initials, constant_concept).value
                            ELSE 1
             tm1 == [tm EXCEPT !.parameters =
                         DictSet(@, constant_concept,
                                 Parameter(constant_concept, initial_val))]
             r == replace_in_templates(h, tm1.templates, << >>, constant_concept,
                                       initial_val)
         IN IF r.raised THEN [heap |-> r.heap, model |-> tm1, raised |-> TRUE]
            ELSE replace_each_constant(r.heap, [tm1 EXCEPT !.templates = r.templates],
                                       Tail(order))

\* the orders in which a set can be iterated
Orders(S) == {o \in [1..Cardinality(S) -> S] : Range(o) = S}

\* replace_constant_concepts(template_model), the constants taken in `order`
replace_constant_concepts(h, tm, order) == replace_each_constant(h, tm, order)

-----------------------------------------------------------------------------
(* SbmlProcessor.extract_model, processor.py:106-321.                      *)
(* A reaction of the document: reactants, products and modifiers (species  *)
(* ids in document order) and mentions, the species ids that occur in the  *)
(* formula of its kinetic law; the formula is the product of the model's   *)
(* parameters and of the mentioned species.                                *)

Reaction(reactants, products, modifiers, mentions, reversible, parses) ==
    [reactants |-> reactants, products |-> products, modifiers |-> modifiers,
     mentions |-> mentions,
     reversible |-> reversible,  \* the reversible attribute of the reaction
     parses |-> parses]          \* whether sympy.parse_expr accepts the law's formula

\* a compartment of the document; power is the exponent with which its id
\* occurs in the formula of every kinetic law
Compartment(id, volume, power) == [id |-> id, volume |-> volume, power |-> power]

SbmlModel(model_id, species, parameters, compartments, reactions) ==
    [model_id |-> model_id, species |-> species, parameters |-> parameters,
     compartments |-> compartments, reactions |-> reactions]

SpeciesIds(model) == {model.species[i].id : i \in DOMAIN model.species}

SpeciesById(model, id) ==
    model.species[CHOOSE i \in DOMAIN model.species : model.species[i].id = id]

\* species_id_map[species.id].name: the name of the symbol a species id parses to
species_id_map(species) ==
    IF species.name # "" /\ ~HasParen(species.name) /\ ~HasDashOrPlus(species.name)
    THEN species.name ELSE species.id

CompartmentIds(model) == {model.compartments[i].id : i \in DOMAIN model.compartments}

\* lines 125-141: all_parameters as id -> value, a compartment's volume
\* overwriting a parameter of the same id
RECURSIVE with_compartments(_, _)
with_compartments(parameters, compartments) ==
    IF compartments = << >> THEN parameters
    ELSE with_compartments(DictSet(parameters, Head(compartments).id,
                                   Head(compartments).volume),
                           Tail(compartments))

all_parameters(model) == with_compartments(model.parameters, model.compartments)

\* lines 174-177: all_locals[id].name, the name of the symbol an id of the
\* formula parses to; the entry of a species comes last and overwrites the
\* entry of a parameter or compartment of the same id
all_locals(model, id) ==
    IF id \in SpeciesIds(model) THEN species_id_map(SpeciesById(model, id)) ELSE id

\* the exponent with which the formula of the kinetic law holds the id: one
\* for a parameter, one for a mentioned species, its power for a compartment
RECURSIVE compartment_power(_, _)
compartment_power(compartments, id) ==
    IF compartments = << >> THEN 0
    ELSE (IF Head(compartments).id = id THEN Head(compartments).power ELSE 0)
             + compartment_power(Tail(compartments), id)

formula_power(model, reaction, id) ==
    (IF DictHas(model.parameters, id) THEN 1 ELSE 0)
        + (IF id \in reaction.mentions THEN 1 ELSE 0)
        + compartment_power(model.compartments, id)

formula_ids(model, reaction) ==
    {id \in DictKeys(model.parameters) \cup reaction.mentions \cup CompartmentIds(model) :
        formula_power(model, reaction, id) > 0}

RECURSIVE SumOver(_, _, _, _)
SumOver(model, reaction, ids, n) ==
    IF ids = {} THEN 0
    ELSE LET id == CHOOSE x \in ids : TRUE
         IN (IF all_locals(model, id) = n THEN formula_power(model, reaction, id) ELSE 0)
                + SumOver(model, reaction, ids \ {id}, n)

\* lines 191-196: the kinetic law parsed against all_locals
parse_rate_law(model, reaction) ==
    Expr(1, [n \in {all_locals(model, id) : id \in formula_ids(model, reaction)} |->
                SumOver(model, reaction, formula_ids(model, reaction), n)])

\* lines 198-211 for one compartment: the test of line 205 cannot fail (an
\* expression is no member of a set of symbols unless it is a symbol, and
\* the derivative of a symbol has no free symbols), so a compartment of
\* volume 1 is divided out once and any other is substituted by its volume
handle_compartment(model, comp, rate_expr) ==
    IF comp.id \notin DOMAIN rate_expr.pw THEN rate_expr
    ELSE IF DictVal(all_parameters(model), comp.id) = 1
    THEN Expr(rate_expr.coef,
              [n \in {m \in DOMAIN rate_expr.pw : m # comp.id \/ rate_expr.pw[m] > 1} |->
                  IF n = comp.id THEN rate_expr.pw[n] - 1 ELSE rate_expr.pw[n]])
    ELSE Expr(rate_expr.coef
                  * Pow(DictVal(all_parameters(model), comp.id), rate_expr.pw[comp.id]),
              [n \in (DOMAIN rate_expr.pw) \ {comp.id} |-> rate_expr.pw[n]])

\* lines 198-211: the loop over compartment_symbols
RECURSIVE handle_compartments(_, _, _)
handle_compartments(model, compartments, rate_expr) ==
    IF compartments = << >> THEN rate_expr
    ELSE handle_compartments(model, Tail(compartments),
                             handle_compartment(model, Head(compartments), rate_expr))

\* lines 191-211: rate_expr when the loop reaches line 213
rate_expr_of(model, reaction) ==
    handle_compartments(model, model.compartments, parse_rate_law(model, reaction))

\* _extract_concepts: [raised, concepts], concepts a function of the species id
extract_concepts(model, gmap) ==
    LET one(id) == extract_concept(SpeciesById(model, id), model.model_id, gmap)
    IN [raised |-> \E id \in SpeciesIds(model) : one(id).raised,
        concepts |-> [id \in SpeciesIds(model) |-> one(id).concept]]

\* _lookup_concepts_filtered(species_ids)
lookup_concepts_filtered(concepts, reporters, species_ids) ==
    LET kept == SelectSeq(species_ids,
                          LAMBDA id : id \notin reporters /\ ~HasCumulative(id))
    IN [i \in DOMAIN kept |-> concepts[kept[i]]]

\* lines 213-221: the modifier ids extended with the implicit modifiers
modifier_species(model, reaction, rate_expr) ==
    LET rate_law_variables == variables_from_sympy_expr(rate_expr)
        implicit_modifiers ==
            (rate_law_variables \cap SpeciesIds(model))
                \ (Range(reaction.reactants) \cup Range(reaction.modifiers))
    IN reaction.modifiers \o SortedIds(implicit_modifiers)

\* classify_reaction with the branches of the one-sided case exchanged: a
\* reaction with products only is emitted as a Degradation of products[0],
\* one with reactants only as a Production of reactants[0]
classify_reaction_exchanged(reactants, products, modifiers, rate_expr) ==
    LET m == Len(modifiers)
        controller == IF m = 1 THEN Some(modifiers[1]) ELSE None
        controllers == IF m >= 2 THEN modifiers ELSE << >>
        one_to_one == Len(reactants) = 1 /\ Len(products) = 1
    IN IF one_to_one
       THEN IF reactants[1].name # "" /\ ConceptEq(reactants[1], products[1])
            THEN << >>
            ELSE << Template(TemplateClass("Conversion", m), Some(reactants[1]),
                             Some(products[1]), controller, controllers,
                             Some(rate_expr)) >>
       ELSE IF reactants = << >> /\ products = << >> THEN << >>
       ELSE IF reactants = << >>
       THEN << Template(TemplateClass("Degradation", m), Some(products[1]), None,
                        controller, controllers, Some(rate_expr)) >>
       ELSE IF products = << >>
       THEN << Template(TemplateClass("Production", m), None, Some(reactants[1]),
                        controller, controllers, Some(rate_expr)) >>
       ELSE << >>

\* lines 229-302: the templates one iteration of the reaction loop appends
classify_reaction(reactants, products, modifiers, rate_expr) ==
    LET m == Len(modifiers)
        controller == IF m = 1 THEN Some(modifiers[1]) ELSE None
        controllers == IF m >= 2 THEN modifiers ELSE << >>
        one_to_one == Len(reactants) = 1 /\ Len(products) = 1
        same == one_to_one /\ reactants[1].name # ""
                    /\ ConceptEq(reactants[1], products[1])
        missing == ~one_to_one /\ reactants = << >> /\ products = << >>
        conversion ==
            IF one_to_one
            THEN << Template(TemplateClass("Conversion", m), Some(reactants[1]),
                             Some(products[1]), controller, controllers,
                             Some(rate_expr)) >>
            ELSE << >>
        one_sided ==
            IF (products # << >>) # (reactants # << >>)
            THEN IF products # << >>
                 THEN << Template(TemplateClass("Production", m), None,
                                  Some(products[1]), controller, controllers,
                                  Some(rate_expr)) >>
                 ELSE << Template(TemplateClass("Degradation", m),
                                  Some(reactants[1]), None, controller, controllers,
                                  Some(rate_expr)) >>
            ELSE << >>
    IN IF same \/ missing THEN << >> ELSE conversion \o one_sided

\* an entry of the log: its text and the concepts it prints
LogEntry(text, concepts) == [text |-> text, concepts |-> concepts]

\* lines 229-302: what one iteration of the reaction loop logs.  After the
\* conversion of a one-to-one reaction is appended, control reaches the test
\* of line 274, which fails, and the else branch of line 297 logs
log_of_reaction(reactants, products, modifiers) ==
    IF Len(reactants) = 1 /\ Len(products) = 1
          /\ reactants[1].name # "" /\ ConceptEq(reactants[1], products[1])
    THEN << LogEntry("Same reactant and product", reactants),
            LogEntry("Modifiers", modifiers) >>
    ELSE IF ~(Len(reactants) = 1 /\ Len(products) = 1)
               /\ reactants = << >> /\ products = << >>
    THEN << LogEntry("missing reactants and products", << >>) >>
    ELSE IF (products # << >>) # (reactants # << >>)
    THEN << >>
    ELSE << LogEntry("skipping reaction with multiple inputs/outputs",
                     reactants \o products) >>

\* lines 213-302 of one iteration, rate_expr the parsed kinetic law
templates_for_rate(model, reporters, concepts, reaction, rate_expr) ==
    classify_reaction(
        lookup_concepts_filtered(concepts, reporters, reaction.reactants),
        lookup_concepts_filtered(concepts, reporters, reaction.products),
        lookup_concepts_filtered(concepts, reporters,
                                 modifier_species(model, reaction, rate_expr)),
        rate_expr)

\* one iteration of the loop of lines 186-302
reaction_templates(model, reporters, concepts, reaction) ==
    templates_for_rate(model, reporters, concepts, reaction,
                       rate_expr_of(model, reaction))

\* what one iteration of the loop of lines 186-302 logs
reaction_log(model, reporters, concepts, reaction) ==
    log_of_reaction(
        lookup_concepts_filtered(concepts, reporters, reaction.reactants),
        lookup_concepts_filtered(concepts, reporters, reaction.products),
        lookup_concepts_filtered(concepts, reporters,
                                 modifier_species(model, reaction,
                                                  rate_expr_of(model, reaction))))

\* lines 304-310: the initials, keyed by species.name, a later species overwriting
RECURSIVE gather_initials(_, _, _)
gather_initials(species, concepts, initials) ==
    IF species = << >> THEN initials
    ELSE gather_initials(Tail(species), concepts,
                         DictSet(initials, Head(species).name,
                                 Initial(concepts[Head(species).id],
                                         Head(species).initial_concentration)))

\* lines 312-314: the Parameter objects
param_objs(model) ==
    [i \in DOMAIN all_parameters(model) |->
        <<all_parameters(model)[i][1],
          Parameter(all_parameters(model)[i][1], all_parameters(model)[i][2])>>]

RECURSIVE Flatten(_)
Flatten(ll) == IF ll = << >> THEN << >> ELSE Head(ll) \o Flatten(Tail(ll))

-----------------------------------------------------------------------------
(* The documents explored *)

\* the size of an SBML document: one per reaction and one per species
\* reference of a reaction (reactant, product, modifier, mention in the law)
MaxDocSize == 5

\* the species the documents declare (no species carries an annotation here)
Plain(id, name, conc) == Species(id, name, conc, FALSE, << >>, << >>, << >>)

SpeciesProfiles ==
    { [species |-> << Plain("S", "S", 2), Plain("s2", "I", 3) >>, reporters |-> {}],
      [species |-> << Plain("S", "S", 2), Plain("s2", "I", 3) >>, reporters |-> {"s2"}],
      [species |-> << Plain("S", "S", 2), Plain("x_cumulative", "X", 3) >>,
       reporters |-> {}],
      [species |-> << Plain("s3", "", 2), Plain("s2", "I", 3) >>, reporters |-> {}],
      [species |-> << Plain("s5", "A-B", 2), Plain("s6", "E(1)", 3) >>, reporters |-> {}],
      [species |-> << Species("S", "S", 2, TRUE, << <<"ido", "0000514">> >>, << >>, << >>),
                      Species("s2", "S", 3, TRUE, << <<"ido", "0000511">> >>, << >>, << >>) >>,
       reporters |-> {}] }

\* the compartments the documents declare: none, one of volume 1 that the
\* laws hold linearly or squared, one of another volume, and one whose id
\* is also the id of the parameter k
CompartmentProfiles ==
    { << >>,
      << Compartment("c", 1, 1) >>,
      << Compartment("c", 1, 2) >>,
      << Compartment("c", 3, 1) >>,
      << Compartment("k", 3, 1) >> }

\* the curated groundings loaded from mapped_biomodels_groundings.csv
CuratedGroundings ==
    << << <<"BIOMD1", "I">>, << << <<"ido", "0000511">> >>, EmptyDict >> >> >>

NoBilayer == [Qin |-> << >>, Box |-> 0, Wn |-> << >>, Wa |-> << >>, Win |-> << >>]

NoSnapshot == [heap |-> << >>, model |-> EmptyModel]

ReactionSize(r) ==
    1 + Len(r.reactants) + Len(r.products) + Len(r.modifiers) + Cardinality(r.mentions)
      + (IF r.reversible THEN 1 ELSE 0) + (IF r.parses THEN 0 ELSE 1)

RECURSIVE ReactionsSize(_)
ReactionsSize(rs) ==
    IF rs = << >> THEN 0 ELSE ReactionSize(Head(rs)) + ReactionsSize(Tail(rs))

DocSize(model) == ReactionsSize(model.reactions)

InitSbml ==
    /\ grounding_map = CuratedGroundings
    /\ \E p \in SpeciesProfiles, compartments \in CompartmentProfiles :
          /\ compartments = << >> \/ p = [species |-> << Plain("S", "S", 2),
                                                         Plain("s2", "I", 3) >>,
                                          reporters |-> {}]
          /\ sbml_model = SbmlModel("BIOMD1", p.species, << <<"k", 2>> >>, compartments,
                                    << >>)
          /\ reporter_ids = p.reporters
    /\ bilayer_json = NoBilayer
    /\ species_arg = None
    /\ heap = << >>
    /\ template_model = EmptyModel
    /\ emitted = << >>
    /\ before = NoSnapshot
    /\ result = None
    /\ calls = 0
    /\ log = << >>
    /\ compiled_model = NoCompiledModel
    /\ petri_net = None
    /\ askenet_net = None
    /\ pysd_model = NoPysdModel
    /\ returned = None
    /\ pc = "input"

\* the document gets one more reaction
AddReaction ==
    /\ pc = "input"
    /\ DocSize(sbml_model) < MaxDocSize
    /\ \E reversible, parses \in BOOLEAN :
          /\ DocSize(sbml_model) + (IF reversible THEN 1 ELSE 0)
                 + (IF parses THEN 0 ELSE 1) < MaxDocSize
          /\ sbml_model' = [sbml_model EXCEPT
                               !.reactions = Append(@, Reaction(<< >>, << >>, << >>, {},
                                                                reversible, parses))]
    /\ UNCHANGED <<returned, compiled_model, petri_net, askenet_net, pysd_model>>
    /\ UNCHANGED <<grounding_map, reporter_ids, bilayer_json, species_arg, heap,
                   template_model, emitted, before, result, calls, log, pc>>

\* the last reaction of the document gets one more species reference
AddReference ==
    /\ pc = "input"
    /\ DocSize(sbml_model) < MaxDocSize
    /\ sbml_model.reactions # << >>
    /\ LET n == Len(sbml_model.reactions)
       IN \E id \in SpeciesIds(sbml_model) :
             \/ sbml_model' = [sbml_model EXCEPT !.reactions[n].reactants = Append(@, id)]
             \/ sbml_model' = [sbml_model EXCEPT !.reactions[n].products = Append(@, id)]
             \/ sbml_model' = [sbml_model EXCEPT !.reactions[n].modifiers = Append(@, id)]
             \/ /\ id \notin sbml_model.reactions[n].mentions
                /\ sbml_model' = [sbml_model EXCEPT !.reactions[n].mentions = @ \cup {id}]
    /\ UNCHANGED <<returned, compiled_model, petri_net, askenet_net, pysd_model>>
    /\ UNCHANGED <<grounding_map, reporter_ids, bilayer_json, species_arg, heap,
                   template_model, emitted, before, result, calls, log, pc>>

\* the loop of lines 186-302: the templates each reaction appends
templates_by_reaction(model, reporters, concepts) ==
    [i \in DOMAIN model.reactions |->
        reaction_templates(model, reporters, concepts, model.reactions[i])]

\* the loop of lines 186-302: what each reaction logs
logs_by_reaction(model, reporters, concepts) ==
    [i \in DOMAIN model.reactions |->
        reaction_log(model, reporters, concepts, model.reactions[i])]

\* the reactions before the first one whose kinetic law sympy.parse_expr
\* refuses (line 193), all of them when there is none
RECURSIVE parsed_prefix(_)
parsed_prefix(reactions) ==
    IF reactions = << >> \/ ~Head(reactions).parses THEN << >>
    ELSE <<Head(reactions)>> \o parsed_prefix(Tail(reactions))

\* lines 304-318: the TemplateModel of the instances 1..Len(templates) of the heap
initial_model(model, concepts, templates) ==
    TemplateModel([i \in DOMAIN templates |-> i], param_objs(model),
                  gather_initials(model.species, concepts, EmptyDict))

\* line 321 (or the exception of line 320), r the outcome of replace_constant_concepts
ExtractReturns(r, per, templates, tm0) ==
    /\ heap' = r.heap
    /\ template_model' = r.model
    /\ emitted' = per
    /\ before' = [heap |-> templates, model |-> tm0]
    /\ calls' = 1
    /\ pc' = IF r.raised THEN "raised" ELSE "done"

\* line 320: replace_constant_concepts iterates the set of constants in some order
ExtractNormalizes(per, templates, tm0) ==
    \E order \in Orders(find_constant_concepts(templates, tm0)) :
        ExtractReturns(replace_constant_concepts(templates, tm0, order), per, templates, tm0)

\* lines 113-318, per the templates appended by each reaction
ExtractClassifies(concepts, per) ==
    ExtractNormalizes(per, Flatten(per), initial_model(sbml_model, concepts, Flatten(per)))

\* line 193 raises in the loop: the exception leaves extract_model
ExtractRaisesInLoop(concepts, parsed) ==
    /\ pc' = "raised"
    /\ emitted' = templates_by_reaction([sbml_model EXCEPT !.reactions = parsed],
                                        reporter_ids, concepts)
    /\ log' = logs_by_reaction([sbml_model EXCEPT !.reactions = parsed], reporter_ids,
                               concepts)
    /\ UNCHANGED <<heap, template_model, before, calls>>

\* line 111, cs the outcome of _extract_concepts
ExtractWithConcepts(cs) ==
    IF cs.raised
    THEN /\ pc' = "raised"
         /\ UNCHANGED <<heap, template_model, emitted, before, calls, log>>
    ELSE IF parsed_prefix(sbml_model.reactions) # sbml_model.reactions
    THEN ExtractRaisesInLoop(cs.concepts, parsed_prefix(sbml_model.reactions))
    ELSE /\ ExtractClassifies(cs.concepts,
                              templates_by_reaction(sbml_model, reporter_ids, cs.concepts))
         /\ log' = logs_by_reaction(sbml_model, reporter_ids, cs.concepts)

\* SbmlProcessor(sbml_model, model_id, reporter_ids).extract_model()
ExtractModel ==
    /\ pc = "input"
    /\ ExtractWithConcepts(extract_concepts(sbml_model, grounding_map))
    /\ UNCHANGED <<returned, compiled_model, petri_net, askenet_net, pysd_model>>
    /\ UNCHANGED <<grounding_map, sbml_model, reporter_ids, bilayer_json, species_arg,
                   result>>

NextSbml == AddReaction \/ AddReference \/ ExtractModel

Spec == InitSbml /\ [][NextSbml]_vars

-----------------------------------------------------------------------------
(* template_model_from_bilayer, bilayer.py:24-80.                          *)
(* The document: Qin (the variable names), Box (the number of boxes) and   *)
(* the three wire lists Wn, Wa, Win of <<box index, variable index>>.      *)

\* the constructor of a template class (pydantic): a role slot the class
\* declares must hold a Concept, None is refused
valid_template(t) ==
    /\ t.cls \in ProductionClasses \/ t.subject # None
    /\ t.cls \in DegradationClasses \/ t.outcome # None
    /\ t.cls \in ControlledClasses => t.controller # None

\* the result of calling a template constructor: [raised, template]
construct(t) ==
    IF valid_template(t) THEN [raised |-> FALSE, template |-> Some(t)]
    ELSE [raised |-> TRUE, template |-> None]

\* lines 38-39
bilayer_concepts(doc) == [i \in DOMAIN doc.Qin |-> Concept(doc.Qin[i], EmptyDict, EmptyDict)]

\* the concepts the wires of a list attach to box b, in list order
wired(doc, wires, b) ==
    LET mine == SelectSeq(wires, LAMBDA w : w[1] = b)
    IN [i \in DOMAIN mine |-> bilayer_concepts(doc)[mine[i][2]]]

\* concept in concepts (list membership by equality)
ConceptIn(c, concepts) == \E i \in DOMAIN concepts : ConceptEq(c, concepts[i])

\* lines 40-51 with the test of line 49 left out
bilayer_box_every_control(doc, b) ==
    [inputs |-> [i \in DOMAIN SelectSeq(doc.Wn, LAMBDA w : w[1] = b) |->
                    [name |-> doc.Qin[SelectSeq(doc.Wn, LAMBDA w : w[1] = b)[i][2]],
                     identifiers |-> << >>, context |-> << >>]],
     outputs |-> [i \in DOMAIN SelectSeq(doc.Wa, LAMBDA w : w[1] = b) |->
                    [name |-> doc.Qin[SelectSeq(doc.Wa, LAMBDA w : w[1] = b)[i][2]],
                     identifiers |-> << >>, context |-> << >>]],
     controllers |-> [i \in DOMAIN SelectSeq(doc.Win, LAMBDA w : w[1] = b) |->
                    [name |-> doc.Qin[SelectSeq(doc.Win, LAMBDA w : w[1] = b)[i][2]],
                     identifiers |-> << >>, context |-> << >>]]]

\* lines 40-51: the box b of the list boxes
bilayer_box(doc, b) ==
    [inputs |-> wired(doc, doc.Wn, b),
     outputs |-> wired(doc, doc.Wa, b),
     controllers |-> SelectSeq(wired(doc, doc.Win, b),
                               LAMBDA c : ~ConceptIn(c, wired(doc, doc.Wn, b)))]

\* lines 65-80 of box_to_template, the assertions passed
box_template(input, output, controllers) ==
    IF controllers = << >>
    THEN IF input = None
         THEN construct(Template("NaturalProduction", None, output, None, << >>, None))
         ELSE IF output = None
         THEN construct(Template("NaturalDegradation", input, None, None, << >>, None))
         ELSE construct(Template("NaturalConversion", input, output, None, << >>, None))
    ELSE IF Len(controllers) = 1
    THEN construct(Template("ControlledConversion", input, output,
                            Some(controllers[1]), << >>, None))
    ELSE construct(Template("GroupedControlledConversion", input, output, None,
                            controllers, None))

\* box_to_template(box): [raised, template]
box_to_template(box) ==
    IF Len(box.inputs) > 1 \/ Len(box.outputs) > 1
    THEN [raised |-> TRUE, template |-> None]
    ELSE box_template(IF box.inputs # << >> THEN Some(box.inputs[1]) ELSE None,
                      IF box.outputs # << >> THEN Some(box.outputs[1]) ELSE None,
                      box.controllers)

\* box_to_template for each box of the document, in Box order
box_results(doc) == [b \in 1..doc.Box |-> box_to_template(bilayer_box(doc, b))]

\* the size of a bilayer document: its boxes and wires
MaxBilayerSize == 5

BilayerSize(doc) == doc.Box + Len(doc.Wn) + Len(doc.Wa) + Len(doc.Win)

InitBilayer ==
    /\ grounding_map = CuratedGroundings
    /\ sbml_model = SbmlModel("", << >>, EmptyDict, << >>, << >>)
    /\ reporter_ids = {}
    /\ \E qin \in {<<"S", "I">>, <<"S", "S">>} :
          bilayer_json = [Qin |-> qin, Box |-> 0, Wn |-> << >>, Wa |-> << >>,
                          Win |-> << >>]
    /\ species_arg = None
    /\ heap = << >>
    /\ template_model = EmptyModel
    /\ emitted = << >>
    /\ before = NoSnapshot
    /\ result = None
    /\ calls = 0
    /\ log = << >>
    /\ compiled_model = NoCompiledModel
    /\ petri_net = None
    /\ askenet_net = None
    /\ pysd_model = NoPysdModel
    /\ returned = None
    /\ pc = "input"

\* the document gets one more box
AddBox ==
    /\ pc = "input"
    /\ BilayerSize(bilayer_json) < MaxBilayerSize
    /\ bilayer_json' = [bilayer_json EXCEPT !.Box = @ + 1]
    /\ UNCHANGED <<returned, compiled_model, petri_net, askenet_net, pysd_model>>
    /\ UNCHANGED <<grounding_map, sbml_model, reporter_ids, species_arg, heap,
                   template_model, emitted, before, result, calls, log, pc>>

\* the document gets one more wire between a box and a variable
AddWire ==
    /\ pc = "input"
    /\ BilayerSize(bilayer_json) < MaxBilayerSize
    /\ \E w \in (1..bilayer_json.Box) \X DOMAIN bilayer_json.Qin :
          \/ bilayer_json' = [bilayer_json EXCEPT !.Wn = Append(@, w)]
          \/ bilayer_json' = [bilayer_json EXCEPT !.Wa = Append(@, w)]
          \/ bilayer_json' = [bilayer_json EXCEPT !.Win = Append(@, w)]
    /\ UNCHANGED <<returned, compiled_model, petri_net, askenet_net, pysd_model>>
    /\ UNCHANGED <<grounding_map, sbml_model, reporter_ids, species_arg, heap,
                   template_model, emitted, before, result, calls, log, pc>>

\* lines 53-56, per the outcome of box_to_template for each box
BilayerReturns(per) ==
    IF \E b \in DOMAIN per : per[b].raised
    THEN /\ pc' = "raised"
         /\ emitted' = per
         /\ UNCHANGED <<heap, template_model>>
    ELSE /\ pc' = "done"
         /\ emitted' = per
         /\ heap' = [b \in DOMAIN per |-> per[b].template[1]]
         /\ template_model' = TemplateModel([b \in DOMAIN per |-> b], EmptyDict, EmptyDict)

\* template_model_from_bilayer(bilayer_json)
TemplateModelFromBilayer ==
    /\ pc = "input"
    /\ BilayerReturns(box_results(bilayer_json))
    /\ UNCHANGED <<returned, compiled_model, petri_net, askenet_net, pysd_model>>
    /\ UNCHANGED <<grounding_map, sbml_model, reporter_ids, bilayer_json, species_arg,
                   before, result, calls, log>>

NextBilayer == AddBox \/ AddWire \/ TemplateModelFromBilayer

SpecBilayer == InitBilayer /\ [][NextBilayer]_vars

-----------------------------------------------------------------------------
(* replace_constant_concepts called on template models of its own,         *)
(* processor.py:463-485.  The models hold templates over the concepts S, I *)
(* (state variables) and c, d (controllers), each with the mass-action     *)
(* rate law k * subject * controllers.                                     *)

MaxTemplates == 2

\* how many times replace_constant_concepts is applied to a model
MaxCalls == 2

Named(name) == Concept(name, EmptyDict, EmptyDict)

ControllerNames == {"I", "c", "d"}

\* the lists of n distinct controllers
ControllerLists(n) ==
    {l \in [1..n -> ControllerNames] : \A i, j \in 1..n : l[i] = l[j] => i = j}

mass_action(names) == Some(Expr(1, [n \in names \cup {"k"} |-> 1]))

Conversion(controllers) ==
    Template(TemplateClass("Conversion", Len(controllers)), Some(Named("S")),
             Some(Named("I")),
             IF Len(controllers) = 1 THEN Some(Named(controllers[1])) ELSE None,
             IF Len(controllers) > 1 THEN [i \in DOMAIN controllers |-> Named(controllers[i])]
             ELSE << >>,
             mass_action({"S"} \cup Range(controllers)))

TemplateUniverse ==
    {Conversion(l) : l \in {<< >>} \cup ControllerLists(1) \cup ControllerLists(2)
                              \cup ControllerLists(3)}
    \cup {Template("NaturalDegradation", Some(Named("c")), None, None, << >>,
                   mass_action({"c"})),
          Template("ControlledProduction", None, Some(Named("S")), Some(Named("d")),
                   << >>, mass_action({"d"})),
          Template("ControlledDegradation", Some(Named("I")), None, Some(Named("c")),
                   << >>, mass_action({"I", "c"})),
          Template("GroupedControlledProduction", None, Some(Named("S")), None,
                   <<Named("c"), Named("d")>>, mass_action({"c", "d"}))}

\* the initials of the model: none, one for c, one for c and one for the
\* concept e that no template refers to
InitialsOptions ==
    {EmptyDict,
     << <<"c", Initial(Named("c"), 3)>> >>,
     << <<"c", Initial(Named("c"), 3)>>, <<"e", Initial(Named("e"), 5)>> >>}

InitConst ==
    /\ grounding_map = CuratedGroundings
    /\ sbml_model = SbmlModel("", << >>, EmptyDict, << >>, << >>)
    /\ reporter_ids = {}
    /\ bilayer_json = NoBilayer
    /\ species_arg = None
    /\ heap = << >>
    /\ \E initials \in InitialsOptions :
          template_model = TemplateModel(<< >>, << <<"k", Parameter("k", 2)>> >>, initials)
    /\ emitted = << >>
    /\ before = NoSnapshot
    /\ result = None
    /\ calls = 0
    /\ log = << >>
    /\ compiled_model = NoCompiledModel
    /\ petri_net = None
    /\ askenet_net = None
    /\ pysd_model = NoPysdModel
    /\ returned = None
    /\ pc = "input"

\* the model gets one more template, a new instance
AddTemplate ==
    /\ pc = "input"
    /\ Len(template_model.templates) < MaxTemplates
    /\ \E t \in TemplateUniverse :
          /\ heap' = Append(heap, t)
          /\ template_model' = [template_model EXCEPT !.templates = Append(@, Len(heap) + 1)]
    /\ UNCHANGED <<returned, compiled_model, petri_net, askenet_net, pysd_model>>
    /\ UNCHANGED <<grounding_map, sbml_model, reporter_ids, bilayer_json, species_arg,
                   emitted, before, result, calls, log, pc>>

ReplaceReturns(r) ==
    /\ heap' = r.heap
    /\ template_model' = r.model
    /\ pc' = IF r.raised THEN "raised" ELSE "done"

\* replace_constant_concepts(template_model), on the model in hand
ReplaceConstantConcepts ==
    /\ pc \in {"input", "done"}
    /\ calls < MaxCalls
    /\ \E order \in Orders(find_constant_concepts(heap, template_model)) :
          ReplaceReturns(replace_constant_concepts(heap, template_model, order))
    /\ before' = [heap |-> heap, model |-> template_model]
    /\ calls' = calls + 1
    /\ UNCHANGED <<returned, compiled_model, petri_net, askenet_net, pysd_model>>
    /\ UNCHANGED <<grounding_map, sbml_model, reporter_ids, bilayer_json, species_arg,
                   emitted, result, log>>

NextConst == AddTemplate \/ ReplaceConstantConcepts

SpecConst == InitConst /\ [][NextConst]_vars

-----------------------------------------------------------------------------
(* _extract_concept called on species of its own, processor.py:597-726.    *)
(* species_arg holds the call's arguments [species, model_id]; the species *)
(* has the id s1, and its annotation holds the lists of curies found under *)
(* bqbiol:is, bqbiol:hasProperty and bqbiol:isVersionOf.                   *)

\* the number of curies in the annotation of the species
MaxAnnotations == 2

AnnotationCuries ==
    {<<"ido", "0000511">>, <<"ido", "0000514">>, <<"ido", "0000569">>,
     <<"ncit", "0000511">>, <<"ido", "C101887">>, <<"ncit", "C171133">>,
     <<"ido", "0000621">>, <<"ido", "0000468">>}

\* a grounding map with entries under a plain name, under a name with a
\* parenthesis and under a species id
GroundingsWithIds ==
    << << <<"BIOMD1", "I">>, << << <<"ido", "0000511">> >>, EmptyDict >> >>,
       << <<"BIOMD1", "E(1)">>,
          << << <<"ido", "0000597">> >>, << <<"disease_severity", "ncit:C25269">> >> >> >>,
       << <<"BIOMD1", "s1">>, << << <<"ido", "0000621">> >>, EmptyDict >> >> >>

AnnotationSize(species) ==
    Len(species.is) + Len(species.properties) + Len(species.is_version_of)

InitConcept ==
    /\ grounding_map \in {CuratedGroundings, GroundingsWithIds}
    /\ sbml_model = SbmlModel("", << >>, EmptyDict, << >>, << >>)
    /\ reporter_ids = {}
    /\ bilayer_json = NoBilayer
    /\ \E name \in {"I", "E(1)", ""}, model_id \in {"BIOMD1", ""}, annotated \in BOOLEAN :
          species_arg = Some([species |-> Species("s1", name, None, annotated,
                                                  << >>, << >>, << >>),
                              model_id |-> model_id])
    /\ heap = << >>
    /\ template_model = EmptyModel
    /\ emitted = << >>
    /\ before = NoSnapshot
    /\ result = None
    /\ calls = 0
    /\ log = << >>
    /\ compiled_model = NoCompiledModel
    /\ petri_net = None
    /\ askenet_net = None
    /\ pysd_model = NoPysdModel
    /\ returned = None
    /\ pc = "input"

\* the annotation of the species gets one more curie
AddAnnotation ==
    /\ pc = "input"
    /\ species_arg[1].species.annotated
    /\ AnnotationSize(species_arg[1].species) < MaxAnnotations
    /\ \E curie \in AnnotationCuries :
          \/ species_arg' = <<[species_arg[1] EXCEPT !.species.is = Append(@, curie)]>>
          \/ species_arg' = <<[species_arg[1] EXCEPT !.species.properties = Append(@, curie)]>>
          \/ species_arg' = <<[species_arg[1] EXCEPT !.species.is_version_of = Append(@, curie)]>>
    /\ UNCHANGED <<returned, compiled_model, petri_net, askenet_net, pysd_model>>
    /\ UNCHANGED <<grounding_map, sbml_model, reporter_ids, bilayer_json, heap,
                   template_model, emitted, before, result, calls, log, pc>>

\* _extract_concept(species, model_id=model_id)
ExtractConcept ==
    /\ pc = "input" \/ (pc = "done" /\ calls < MaxCalls)
    /\ result' = Some(extract_concept(species_arg[1].species, species_arg[1].model_id,
                                      grounding_map))
    /\ returned' =
          IF result'[1].raised THEN None
          ELSE Some([concept |-> result'[1].concept,
                     dicts |-> returned_dicts(species_arg[1].species,
                                              species_arg[1].model_id, grounding_map)])
    /\ pc' = IF result'[1].raised THEN "raised" ELSE "done"
    /\ calls' = calls + 1
    /\ UNCHANGED <<compiled_model, petri_net, askenet_net, pysd_model>>
    /\ UNCHANGED <<grounding_map, sbml_model, reporter_ids, bilayer_json, species_arg,
                   heap, template_model, emitted, before, log>>

\* the identifiers and contexts callers write into a Concept they hold
RewrittenDicts == {EmptyDict, << <<"ido", "0000514">> >>}

\* grounding_map after the dict at a place was replaced by value
written(gmap, place, field, value) ==
    IF IsNone(place) THEN gmap
    ELSE DictSet(gmap, place[1],
                 IF field = "identifiers" THEN <<value, DictVal(gmap, place[1])[2]>>
                 ELSE <<DictVal(gmap, place[1])[1], value>>)

\* the caller rewrites in place the identifiers or the context of the
\* Concept it was returned (as grounding_normalize and the stratification
\* code do): every holder of that dict sees the new content
RewriteConcept ==
    /\ ~IsNone(returned)
    /\ \E field \in {"identifiers", "context"}, value \in RewrittenDicts :
          /\ returned[1].concept[field] # value
          /\ returned' = Some([returned[1] EXCEPT !.concept[field] = value])
          /\ grounding_map' = written(grounding_map, returned[1].dicts[field], field, value)
    /\ UNCHANGED <<compiled_model, petri_net, askenet_net, pysd_model>>
    /\ UNCHANGED <<sbml_model, reporter_ids, bilayer_json, species_arg, heap,
                   template_model, emitted, before, result, calls, log, pc>>

NextConcept == AddAnnotation \/ ExtractConcept \/ RewriteConcept

SpecConcept == InitConcept /\ [][NextConcept]_vars

-----------------------------------------------------------------------------
(* src/mira/modeling/petri.py and src/mira/modeling/askenet/petrinet.py:    *)
(* the two Petri-net exporters. Both constructors read a Model: its          *)
(* variables (a dict in insertion order, keyed by the variable's key) and   *)
(* its transitions, each with the tuples control, consumed and produced of  *)
(* variables. The fields of the emitted states and transitions that only    *)
(* render text (groundings, rate law, MathML, JSON of the template) are     *)
(* left out.                                                                *)

\* a variable of the Model: var.key, var.data['name'], var.data['initial_value']
Variable(key, name, initial_value) ==
    [key |-> key, data |-> [name |-> name, initial_value |-> initial_value]]

\* a transition of the Model; control, consumed and produced hold the keys
\* of their variables, rate is the transition's parameter (key, value and
\* whether the key is a str) and template.rate_law the rate law of its
\* template, if any
Transition(control, consumed, produced, rate, rate_law) ==
    [control |-> control, consumed |-> consumed, produced |-> produced,
     rate |-> rate, template |-> [rate_law |-> rate_law]]

\* model.variables and model.parameters are dicts in insertion order
Model(variables, parameters, transitions) ==
    [variables |-> variables, parameters |-> parameters, transitions |-> transitions]

\* str(rate_law), and mathml(rate_law) / expression_to_mathml(rate_law)
str_expr(expr) == <<"str", expr>>

mathml(expr) == <<"mathml", expr>>

\* petri.py lines 160-162
sanitize_parameter_name(pname) == IF pname = "XXlambdaXX" THEN "lambda" ELSE pname

\* str(key)
str(key) == <<"str">> \o key

\* petri.py line 72, petrinet.py line 96: var.data.get('name') or str(key)
variable_name(var) ==
    IF IsNone(var.data.name) \/ var.data.name = Some("") THEN str(var.key)
    ELSE var.data.name[1]

\* the position in model.variables of the variable stored under key
variable_index(model, key) ==
    CHOOSE i \in DOMAIN model.variables : model.variables[i].key = key

\* petri.py lines 67-68: vmap, the 1-based position of each variable
petri_vmap(model) ==
    [key \in {model.variables[i].key : i \in DOMAIN model.variables} |->
        variable_index(model, key)]

\* petri.py lines 69-84: the state of one variable
petri_state(var) ==
    [sname |-> variable_name(var), mira_initial_value |-> var.data.initial_value]

\* petri.py lines 125-132: the inputs appended for transition idx
petri_inputs_of(vmap, transition, idx) ==
    [i \in DOMAIN transition.control |-> [is |-> vmap[transition.control[i]], it |-> idx]]
        \o [i \in DOMAIN transition.consumed |->
                [is |-> vmap[transition.consumed[i]], it |-> idx]]

\* petri.py lines 125-135 with the append of lines 128-129 left out
petri_outputs_without_control(vmap, transition, idx) ==
    [i \in DOMAIN transition.produced |->
        [os |-> vmap[transition.produced[i]], ot |-> idx]]

\* petri.py lines 125-135: the outputs appended for transition idx
petri_outputs_of(vmap, transition, idx) ==
    [i \in DOMAIN transition.control |-> [os |-> vmap[transition.control[i]], ot |-> idx]]
        \o [i \in DOMAIN transition.produced |->
                [os |-> vmap[transition.produced[i]], ot |-> idx]]

\* petri.py line 96, petrinet.py line 119: f"t{idx + 1}"
tname(idx) == <<"t", idx>>

\* petri.py lines 89-93: pname
petri_pname(transition, idx) ==
    IF ~transition.rate.is_str THEN <<"p_petri", idx>>
    ELSE <<sanitize_parameter_name(transition.rate.key)>>

\* petri.py lines 114-122: the parameters of the model that the rate law
\* names, by sanitized key, as the JSON text of a dict with sorted keys
mira_parameters(model, rate_law) ==
    <<"json",
      [key \in {sanitize_parameter_name(DictVal(model.parameters, name).key) :
                    name \in variables_from_sympy_expr(rate_law) \cap DictKeys(model.parameters)} |->
          DictVal(model.parameters,
                  CHOOSE name \in variables_from_sympy_expr(rate_law)
                                      \cap DictKeys(model.parameters) :
                      sanitize_parameter_name(DictVal(model.parameters, name).key) = key).value]>>

\* petri.py lines 95-122: transition_dict
petri_transition(model, transition, idx) ==
    IF IsNone(transition.template.rate_law)
    THEN [tname |-> tname(idx),
          parameter_name |-> petri_pname(transition, idx),
          parameter_value |-> transition.rate.value]
    ELSE [tname |-> tname(idx),
          parameter_name |-> petri_pname(transition, idx),
          parameter_value |-> transition.rate.value,
          mira_rate_law |-> str_expr(transition.template.rate_law[1]),
          mira_rate_law_mathml |-> mathml(transition.template.rate_law[1]),
          mira_parameters |-> mira_parameters(model, transition.template.rate_law[1])]

\* PetriNetModel.__init__
PetriNetModel(model) ==
    [vmap |-> petri_vmap(model),
     states |-> [i \in DOMAIN model.variables |-> petri_state(model.variables[i])],
     transitions |-> [idx \in DOMAIN model.transitions |->
                        petri_transition(model, model.transitions[idx], idx)],
     inputs |-> Flatten([idx \in DOMAIN model.transitions |->
                    petri_inputs_of(petri_vmap(model), model.transitions[idx], idx)]),
     outputs |-> Flatten([idx \in DOMAIN model.transitions |->
                    petri_outputs_of(petri_vmap(model), model.transitions[idx], idx)])]

\* petrinet.py lines 92-97: vmap, the name of each variable by its key
askenet_vmap(model) ==
    [key \in {model.variables[i].key : i \in DOMAIN model.variables} |->
        variable_name(model.variables[variable_index(model, key)])]

\* petrinet.py lines 93-116: the state of one variable
askenet_state(var) ==
    [id |-> variable_name(var), name |-> variable_name(var),
     initial |-> var.data.initial_value]

\* petrinet.py lines 121-129: inputs and outputs of a transition
askenet_inputs(vmap, transition) ==
    [i \in DOMAIN transition.control |-> vmap[transition.control[i]]]
        \o [i \in DOMAIN transition.consumed |-> vmap[transition.consumed[i]]]

askenet_outputs(vmap, transition) ==
    [i \in DOMAIN transition.control |-> vmap[transition.control[i]]]
        \o [i \in DOMAIN transition.produced |-> vmap[transition.produced[i]]]

\* petrinet.py lines 119-142 with the test of line 135 left out: the rate is
\* emitted for every transition, None rendered as text
askenet_transition_always_rate(vmap, transition, idx) ==
    [id |-> <<"t", idx>>,
     input |-> [i \in DOMAIN transition.control |-> vmap[transition.control[i]]]
                 \o [i \in DOMAIN transition.consumed |-> vmap[transition.consumed[i]]],
     output |-> [i \in DOMAIN transition.control |-> vmap[transition.control[i]]]
                 \o [i \in DOMAIN transition.produced |-> vmap[transition.produced[i]]],
     properties |-> [rate |-> [expression |-> <<"str", transition.template.rate_law>>,
                               expression_mathml |->
                                   <<"mathml", transition.template.rate_law>>]]]

\* petrinet.py lines 119-142: the dict of transition idx
askenet_transition(vmap, transition, idx) ==
    IF IsNone(transition.template.rate_law)
    THEN [id |-> tname(idx),
          input |-> askenet_inputs(vmap, transition),
          output |-> askenet_outputs(vmap, transition)]
    ELSE [id |-> tname(idx),
          input |-> askenet_inputs(vmap, transition),
          output |-> askenet_outputs(vmap, transition),
          properties |->
              [rate |-> [expression |-> str_expr(transition.template.rate_law[1]),
                         expression_mathml |-> mathml(transition.template.rate_law[1])]]]

\* petrinet.py lines 146-156: param_dict
askenet_parameter(key, param) ==
    IF IsNone(param.distribution)
    THEN [id |-> key, value |-> param.value]
    ELSE [id |-> key, value |-> param.value,
          distribution |-> [type |-> param.distribution[1].type,
                            parameters |-> param.distribution[1].parameters]]

\* AskeNetPetriNetModel.__init__
AskeNetPetriNetModel(model) ==
    [states |-> [i \in DOMAIN model.variables |-> askenet_state(model.variables[i])],
     transitions |-> [idx \in DOMAIN model.transitions |->
                        askenet_transition(askenet_vmap(model), model.transitions[idx], idx)],
     parameters |-> [i \in DOMAIN model.parameters |->
                        askenet_parameter(model.parameters[i][1], model.parameters[i][2])]]

\* petrinet.py lines 159-167, AskeNetPetriNetModel.to_json: [raised, value];
\* reading an attribute the instance does not have raises AttributeError
askenet_to_json(self) ==
    IF {"states", "transitions", "inputs", "outputs"} \subseteq DOMAIN self
    THEN [raised |-> FALSE,
          value |-> Some([S |-> self.states, T |-> self.transitions,
                          I |-> self.inputs, O |-> self.outputs])]
    ELSE [raised |-> TRUE, value |-> None]

(* the Models handed to the exporters *)

MaxPetriSize == 5

\* model.variables: S with an initial value, I, and a variable whose concept
\* has an empty name, in two insertion orders; and a model whose concepts
\* I and I-in-context-vaccinated share the name and differ in the key
VariableProfiles ==
    { << Variable(<<"S", "ido:0000514">>, Some("S"), Some(2)),
         Variable(<<"I", "ido:0000511">>, Some("I"), None),
         Variable(<<"", "ido:0000592">>, Some(""), None) >>,
      << Variable(<<"", "ido:0000592">>, Some(""), None),
         Variable(<<"S", "ido:0000514">>, Some("S"), Some(2)),
         Variable(<<"I", "ido:0000511">>, Some("I"), None) >>,
      << Variable(<<"I", "ido:0000511">>, Some("I"), None),
         Variable(<<"I", "ido:0000511", "vaccinated">>, Some("I"), None) >> }

\* model.parameters: k, and a parameter with a distribution whose name sympy
\* cannot hold
ModelParameters ==
    << <<"k", [key |-> "k", value |-> 2, distribution |-> None]>>,
       <<"XXlambdaXX",
         [key |-> "XXlambdaXX", value |-> 3,
          distribution |-> Some([type |-> "Uniform1", parameters |-> <<2, 4>>])]>> >>

\* transition.rate: a parameter of the model, or one generated for the
\* transition under a key that is no str
Rates ==
    { [key |-> "k", is_str |-> TRUE, value |-> Some(2)],
      [key |-> "", is_str |-> FALSE, value |-> None] }

\* transition.template.rate_law
RateLaws ==
    { None,
      Some(Expr(1, [n \in {"k", "I"} |-> 1])),
      Some(Expr(1, [n \in {"XXlambdaXX"} |-> 1])) }

\* the keys of model.variables
VariableKeys(model) == {model.variables[i].key : i \in DOMAIN model.variables}

\* tuples of at most n variables of the model, by key
KeyTuples(model, n) == UNION {[1..m -> VariableKeys(model)] : m \in 0..n}

\* one for the transition, one for each variable it names, one for a rate
\* law and one for a generated rate parameter
TransitionSize(transition) ==
    1 + Len(transition.control) + Len(transition.consumed) + Len(transition.produced)
      + (IF IsNone(transition.template.rate_law) THEN 0 ELSE 1)
      + (IF transition.rate.is_str THEN 0 ELSE 1)

RECURSIVE PetriSize(_)
PetriSize(transitions) ==
    IF transitions = << >> THEN 0
    ELSE TransitionSize(Head(transitions)) + PetriSize(Tail(transitions))

InitPetri ==
    /\ grounding_map = CuratedGroundings
    /\ sbml_model = SbmlModel("", << >>, EmptyDict, << >>, << >>)
    /\ reporter_ids = {}
    /\ bilayer_json = NoBilayer
    /\ species_arg = None
    /\ heap = << >>
    /\ template_model = EmptyModel
    /\ emitted = << >>
    /\ before = NoSnapshot
    /\ result = None
    /\ calls = 0
    /\ log = << >>
    /\ compiled_model \in {Model(variables, ModelParameters, << >>) :
                               variables \in VariableProfiles}
    /\ petri_net = None
    /\ askenet_net = None
    /\ pysd_model = NoPysdModel
    /\ returned = None
    /\ pc = "input"

\* the Model gets one more transition
AddTransition ==
    /\ pc = "input"
    /\ PetriSize(compiled_model.transitions) < MaxPetriSize
    /\ \E control \in KeyTuples(compiled_model,
                                 MaxPetriSize - 1 - PetriSize(compiled_model.transitions)),
          consumed, produced \in KeyTuples(compiled_model, 1),
          rate \in Rates, rate_law \in RateLaws :
          /\ PetriSize(compiled_model.transitions)
                + TransitionSize(Transition(control, consumed, produced, rate, rate_law))
                <= MaxPetriSize
          /\ compiled_model' =
                Model(compiled_model.variables, compiled_model.parameters,
                      Append(compiled_model.transitions,
                             Transition(control, consumed, produced, rate, rate_law)))
    /\ UNCHANGED <<returned, petri_net, askenet_net, pysd_model, pc>>
    /\ UNCHANGED <<grounding_map, sbml_model, reporter_ids, bilayer_json, species_arg,
                   heap, template_model, emitted, before, result, calls, log>>

\* PetriNetModel(model)
NewPetriNetModel ==
    /\ IsNone(petri_net)
    /\ petri_net' = Some(PetriNetModel(compiled_model))
    /\ pc' = "done"
    /\ UNCHANGED <<returned, compiled_model, askenet_net, pysd_model>>
    /\ UNCHANGED <<grounding_map, sbml_model, reporter_ids, bilayer_json, species_arg,
                   heap, template_model, emitted, before, result, calls, log>>

\* AskeNetPetriNetModel(model)
NewAskeNetPetriNetModel ==
    /\ IsNone(askenet_net)
    /\ askenet_net' = Some(AskeNetPetriNetModel(compiled_model))
    /\ pc' = "done"
    /\ UNCHANGED <<returned, compiled_model, petri_net, pysd_model>>
    /\ UNCHANGED <<grounding_map, sbml_model, reporter_ids, bilayer_json, species_arg,
                   heap, template_model, emitted, before, result, calls, log>>

\* AskeNetPetriNetModel.to_json(); to_json_str, to_json_file and to_pydantic
\* start with this call
AskeNetToJson ==
    /\ ~IsNone(askenet_net)
    /\ IsNone(result)
    /\ result' = Some(askenet_to_json(askenet_net[1]))
    /\ UNCHANGED <<returned, compiled_model, petri_net, askenet_net, pysd_model, pc>>
    /\ UNCHANGED <<grounding_map, sbml_model, reporter_ids, bilayer_json, species_arg,
                   heap, template_model, emitted, before, calls, log>>

NextPetri ==
    AddTransition \/ NewPetriNetModel \/ NewAskeNetPetriNetModel \/ AskeNetToJson

SpecPetri == InitPetri /\ [][NextPetri]_vars

-----------------------------------------------------------------------------
(* template_model_from_pysd_model, parse_pysd_model.py:33-282.             *)
(* The document: the Stateful variables (stocks) with the argument of      *)
(* their INTEG expression, a sum of flows each negated or not, in the      *)
(* order of the parsed expression's args; the Auxiliary/Normal variables    *)
(* (flows) with the free symbols of their expression, which is taken to be  *)
(* the product of those symbols; and the variables with a decimal          *)
(* expression (parameters).                                                *)

Stock(name, integ, initial) == [name |-> name, integ |-> integ, initial |-> initial]

Auxiliary(name, symbols) == [name |-> name, symbols |-> symbols]

\* lines 116-153 with inputs and outputs exchanged
state_rate_map_exchanged(stock) ==
    [outputs |-> [i \in DOMAIN SelectSeq(stock.integ, LAMBDA t : ~t.negated) |->
                    SelectSeq(stock.integ, LAMBDA t : ~t.negated)[i].flow],
     inputs |-> [i \in DOMAIN SelectSeq(stock.integ, LAMBDA t : t.negated) |->
                    SelectSeq(stock.integ, LAMBDA t : t.negated)[i].flow]]

\* lines 116-153: state_rate_map[state_name]; an argument without flows is
\* the numeral 0, a sympy atom, whose text is appended to inputs
state_rate_map(stock) ==
    IF stock.integ = << >> THEN [inputs |-> <<"0">>, outputs |-> << >>]
    ELSE [inputs |-> [i \in DOMAIN SelectSeq(stock.integ, LAMBDA t : ~t.negated) |->
                         SelectSeq(stock.integ, LAMBDA t : ~t.negated)[i].flow],
          outputs |-> [i \in DOMAIN SelectSeq(stock.integ, LAMBDA t : t.negated) |->
                         SelectSeq(stock.integ, LAMBDA t : t.negated)[i].flow]]

\* lines 217-228: one pass of the loop over state_rate_map for a flow
scan_state(stock, aux, acc) ==
    [input |-> IF aux.name \in Range(state_rate_map(stock).outputs)
               THEN Some(stock.name) ELSE acc.input,
     output |-> IF aux.name \in Range(state_rate_map(stock).inputs)
                THEN Some(stock.name) ELSE acc.output,
     controller |-> IF /\ aux.name \in Range(state_rate_map(stock).inputs)
                       /\ stock.name \in aux.symbols
                       /\ aux.name \notin Range(state_rate_map(stock).outputs)
                    THEN Some(stock.name) ELSE acc.controller]

\* lines 212-236: transition_map[rate_name]
RECURSIVE scan_states(_, _, _)
scan_states(stocks, aux, acc) ==
    IF stocks = << >> THEN acc
    ELSE scan_states(Tail(stocks), aux, scan_state(Head(stocks), aux, acc))

\* mira.sources.util.transition_to_templates: the variant by the number of
\* controllers and the sides present; nothing without subject and outcome
transition_to_templates(input_concepts, output_concepts, controller_concepts, rate) ==
    IF input_concepts = << >> /\ output_concepts = << >> THEN << >>
    ELSE << Template(TemplateClass(IF input_concepts = << >> THEN "Production"
                                   ELSE IF output_concepts = << >> THEN "Degradation"
                                   ELSE "Conversion",
                                   Len(controller_concepts)),
                     IF input_concepts = << >> THEN None ELSE Some(input_concepts[1]),
                     IF output_concepts = << >> THEN None ELSE Some(output_concepts[1]),
                     IF Len(controller_concepts) = 1 THEN Some(controller_concepts[1])
                     ELSE None,
                     IF Len(controller_concepts) > 1 THEN controller_concepts ELSE << >>,
                     Some(rate)) >>

\* lines 245-272: the templates of one transition; state_to_concept (lines
\* 285-308) names the Concept by the Py Name
transition_templates(transition, aux) ==
    transition_to_templates(
        IF IsNone(transition.input) THEN << >>
        ELSE <<Concept(transition.input[1], EmptyDict, EmptyDict)>>,
        IF IsNone(transition.output) THEN << >>
        ELSE <<Concept(transition.output[1], EmptyDict, EmptyDict)>>,
        IF IsNone(transition.controller) THEN << >>
        ELSE <<Concept(transition.controller[1], EmptyDict, EmptyDict)>>,
        Expr(1, [n \in aux.symbols |-> 1]))

\* lines 200-272: the templates of each Auxiliary/Normal variable, in order
pysd_templates(doc) ==
    [j \in DOMAIN doc.auxiliaries |->
        transition_templates(
            scan_states(doc.stocks, doc.auxiliaries[j],
                        [input |-> None, output |-> None, controller |-> None]),
            doc.auxiliaries[j])]

\* lines 155-164: mira_initials
pysd_initials(doc) ==
    [i \in DOMAIN doc.stocks |->
        <<doc.stocks[i].name,
          Initial(Concept(doc.stocks[i].name, EmptyDict, EmptyDict), doc.stocks[i].initial)>>]

\* lines 166-198: mira_parameters
pysd_parameters(doc) ==
    [i \in DOMAIN doc.constants |->
        <<doc.constants[i][1], Parameter(doc.constants[i][1], doc.constants[i][2])>>]

(* the documents handed to template_model_from_pysd_model *)

MaxPysdSize == 5

FlowNames == {"f1", "f2"}

\* the flows, terms of INTEG arguments and symbols of flow expressions
RECURSIVE PysdSize(_)
PysdSize(doc) ==
    IF doc.stocks # << >>
    THEN Len(Head(doc.stocks).integ)
           + PysdSize([doc EXCEPT !.stocks = Tail(doc.stocks)])
    ELSE IF doc.auxiliaries # << >>
    THEN 1 + Cardinality(Head(doc.auxiliaries).symbols)
           + PysdSize([doc EXCEPT !.auxiliaries = Tail(doc.auxiliaries)])
    ELSE 0

InitPysd ==
    /\ grounding_map = CuratedGroundings
    /\ sbml_model = SbmlModel("", << >>, EmptyDict, << >>, << >>)
    /\ reporter_ids = {}
    /\ bilayer_json = NoBilayer
    /\ species_arg = None
    /\ heap = << >>
    /\ template_model = EmptyModel
    /\ emitted = << >>
    /\ before = NoSnapshot
    /\ result = None
    /\ calls = 0
    /\ log = << >>
    /\ compiled_model = NoCompiledModel
    /\ petri_net = None
    /\ askenet_net = None
    /\ pysd_model = [stocks |-> << Stock("s", << >>, 2), Stock("i", << >>, 3),
                                   Stock("r", << >>, 0) >>,
                     auxiliaries |-> << >>,
                     constants |-> << <<"k", 2>> >>]
    /\ returned = None
    /\ pc = "input"

\* the INTEG argument of a stock gets one more flow, negated or not
AddTerm ==
    /\ pc = "input"
    /\ PysdSize(pysd_model) < MaxPysdSize
    /\ \E i \in DOMAIN pysd_model.stocks, flow \in FlowNames, negated \in BOOLEAN :
          /\ \A t \in DOMAIN pysd_model.stocks[i].integ :
                 pysd_model.stocks[i].integ[t].flow # flow
          /\ pysd_model' =
                [pysd_model EXCEPT !.stocks[i].integ =
                    Append(@, [flow |-> flow, negated |-> negated])]
    /\ UNCHANGED <<returned, compiled_model, petri_net, askenet_net>>
    /\ UNCHANGED <<grounding_map, sbml_model, reporter_ids, bilayer_json, species_arg, heap,
                   template_model, emitted, before, result, calls, log, pc>>

\* the document gets one more Auxiliary/Normal variable
AddAuxiliary ==
    /\ pc = "input"
    /\ \E name \in FlowNames, symbols \in SUBSET {"s", "i", "r", "k"} :
          /\ \A j \in DOMAIN pysd_model.auxiliaries : pysd_model.auxiliaries[j].name # name
          /\ PysdSize(pysd_model) + 1 + Cardinality(symbols) <= MaxPysdSize
          /\ pysd_model' =
                [pysd_model EXCEPT !.auxiliaries = Append(@, Auxiliary(name, symbols))]
    /\ UNCHANGED <<returned, compiled_model, petri_net, askenet_net>>
    /\ UNCHANGED <<grounding_map, sbml_model, reporter_ids, bilayer_json, species_arg, heap,
                   template_model, emitted, before, result, calls, log, pc>>

\* template_model_from_pysd_model(pysd_model, model_text)
TemplateModelFromPysdModel ==
    /\ pc = "input"
    /\ pc' = "done"
    /\ emitted' = pysd_templates(pysd_model)
    /\ heap' = Flatten(pysd_templates(pysd_model))
    /\ template_model' =
          TemplateModel([i \in DOMAIN Flatten(pysd_templates(pysd_model)) |-> i],
                        pysd_parameters(pysd_model), pysd_initials(pysd_model))
    /\ UNCHANGED <<returned, compiled_model, petri_net, askenet_net, pysd_model>>
    /\ UNCHANGED <<grounding_map, sbml_model, reporter_ids, bilayer_json, species_arg,
                   before, result, calls, log>>

NextPysd == AddTerm \/ AddAuxiliary \/ TemplateModelFromPysdModel

SpecPysd == InitPysd /\ [][NextPysd]_vars

-----------------------------------------------------------------------------
(* Properties of SbmlProcessor.extract_model, read on `emitted`: the       *)
(* templates each reaction of the document appended to the list, before    *)
(* replace_constant_concepts normalises the model.                         *)

\* the concepts of the reaction's species ids that pass the filter
Kept(ids) ==
    lookup_concepts_filtered(extract_concepts(sbml_model, grounding_map).concepts,
                             reporter_ids, ids)

\* the reactants, products and modifiers (declared, then implicit) of
\* reaction i after filtering
ReactantsOf(i) == Kept(sbml_model.reactions[i].reactants)

ProductsOf(i) == Kept(sbml_model.reactions[i].products)

ModifiersOf(i) ==
    Kept(modifier_species(sbml_model, sbml_model.reactions[i],
                          rate_expr_of(sbml_model, sbml_model.reactions[i])))

KindOf(i) ==
    IF ReactantsOf(i) = << >> THEN "Production"
    ELSE IF ProductsOf(i) = << >> THEN "Degradation"
    ELSE "Conversion"

\* reaction i has at most one reactant and one product, and they differ
Classifiable(i) ==
    /\ Len(ReactantsOf(i)) <= 1
    /\ Len(ProductsOf(i)) <= 1
    /\ Len(ReactantsOf(i)) = 1 /\ Len(ProductsOf(i)) = 1
           => ~ConceptEq(ReactantsOf(i)[1], ProductsOf(i)[1])

\* template t is the one the taxonomy selects for reaction i
Selected(i, t) ==
    /\ t.cls = TemplateClass(KindOf(i), Len(ModifiersOf(i)))
    /\ ControllersOf(t) = ModifiersOf(i)
    /\ ReactantsOf(i) # << >> => t.subject = Some(ReactantsOf(i)[1])
    /\ ProductsOf(i) # << >> => t.outcome = Some(ProductsOf(i)[1])

ImplicitControllersOf(i) ==
    SortedIds({id \in SpeciesIds(sbml_model) :
                  /\ id \in sbml_model.reactions[i].mentions
                  /\ id \notin Range(sbml_model.reactions[i].reactants)
                  /\ id \notin Range(sbml_model.reactions[i].modifiers)
                  /\ id \notin Range(sbml_model.reactions[i].products)})

\* C3: the controllers of the template a reaction emits are its declared
\* modifiers followed by exactly the implicit controllers: the known
\* species that occur in the rate law and are neither reactant, declared
\* modifier nor product, whether or not a species' name differs from its id.
C3_ImplicitControllers ==
    \A i \in DOMAIN emitted :
        \A k \in DOMAIN emitted[i] :
            ControllersOf(emitted[i][k])
                = Kept(sbml_model.reactions[i].modifiers \o ImplicitControllersOf(i))

\* C5: a reaction with more than one reactant or more than one product
\* (after filtering) and no modifiers contributes no template.
C5_ManyToManySkipped ==
    \A i \in DOMAIN emitted :
        (Len(ReactantsOf(i)) > 1 \/ Len(ProductsOf(i)) > 1) /\ ModifiersOf(i) = << >>
            => emitted[i] = << >>

-----------------------------------------------------------------------------
(* Properties of template_model_from_bilayer, read on `emitted`: the       *)
(* outcome of box_to_template for each box of the document.                *)

BoxKind(box) ==
    IF box.inputs = << >> THEN "Production"
    ELSE IF box.outputs = << >> THEN "Degradation"
    ELSE "Conversion"

\* C2: box_to_template classifies every box with at most one input and at
\* most one output by the taxonomy's selection rule: no template for a box
\* with neither input nor output; otherwise Production / Degradation /
\* Conversion by which of input and output are present, and Natural /
\* Controlled / GroupedControlled by the number of controllers.
C2_BoxClassification ==
    \A b \in DOMAIN emitted :
        Len(bilayer_box(bilayer_json, b).inputs) <= 1
            /\ Len(bilayer_box(bilayer_json, b).outputs) <= 1
        => IF bilayer_box(bilayer_json, b).inputs = << >>
                 /\ bilayer_box(bilayer_json, b).outputs = << >>
           THEN emitted[b].template = None
           ELSE /\ emitted[b].template # None
                /\ emitted[b].template[1].cls
                       = TemplateClass(BoxKind(bilayer_box(bilayer_json, b)),
                                       Len(bilayer_box(bilayer_json, b).controllers))

\* C4: no template of a returned TemplateModel has a subject and an outcome
\* that are the same concept.
C4_NoSelfLoop ==
    pc = "done" =>
        \A i \in DOMAIN template_model.templates :
            heap[template_model.templates[i]].subject # None
                /\ heap[template_model.templates[i]].outcome # None
            => ~ConceptEq(heap[template_model.templates[i]].subject[1],
                          heap[template_model.templates[i]].outcome[1])

-----------------------------------------------------------------------------
(* Properties of replace_constant_concepts, read on the model before a     *)
(* call (`before`) and the model after it.                                 *)

\* template i of the model before the call, and after it
Original(i) == before.heap[before.model.templates[i]]

Resulting(i) == heap[template_model.templates[i]]

\* the names of the concepts in the subject or outcome role of a template
\* of the model before the call
ChangingBefore ==
    UNION {Names(Original(i).subject) \cup Names(Original(i).outcome) :
               i \in DOMAIN before.model.templates}

\* the names of the concepts of the model before the call: those of its
\* templates' roles and those of its initials
ConceptsBefore ==
    ChangingBefore
        \cup UNION {Names(ControllersOf(Original(i))) : i \in DOMAIN before.model.templates}
        \cup DictKeys(before.model.initials)

KindOfClass(cls) ==
    IF cls \in ProductionClasses THEN "Production"
    ELSE IF cls \in DegradationClasses THEN "Degradation"
    ELSE "Conversion"

\* C6: after replace_constant_concepts every concept that is subject or
\* outcome of no template (a controller only, or referenced by no template
\* at all) is a parameter under its own name, valued with its Initial, or
\* with 1.0 when it has none.
C6_ConstantsBecomeParameters ==
    calls >= 1 /\ pc = "done" =>
        \A n \in ConceptsBefore \ ChangingBefore :
            /\ DictHas(template_model.parameters, n)
            /\ DictVal(template_model.parameters, n)
                  = Parameter(n, IF DictHas(before.model.initials, n)
                                 THEN DictVal(before.model.initials, n).value
                                 ELSE 1)

\* C7: the controllers of each resulting template are the controllers of
\* the original template minus the constant concepts, in order, and its
\* variant is the one of the same kind with that number of controllers.
C7_ControllersMinusConstants ==
    calls >= 1 /\ pc = "done" =>
        \A i \in DOMAIN before.model.templates :
            /\ ControllersOf(Resulting(i))
                  = SelectSeq(ControllersOf(Original(i)),
                              LAMBDA c : c.name \in ChangingBefore)
            /\ Resulting(i).cls
                  = TemplateClass(KindOfClass(Original(i).cls),
                                  Len(ControllersOf(Resulting(i))))

\* C8: a second application of replace_constant_concepts changes neither
\* the templates nor the parameters, and no application increases the
\* number of controllers of a template.
C8_Idempotent ==
    /\ calls >= 1 /\ pc = "done" =>
           \A i \in DOMAIN before.model.templates :
               Len(ControllersOf(Resulting(i))) <= Len(ControllersOf(Original(i)))
    /\ calls = 2 /\ pc = "done" =>
           /\ TemplatesOf(heap, template_model) = TemplatesOf(before.heap, before.model)
           /\ DictEq(template_model.parameters, before.model.parameters)

\* C9: replace_constant_concepts leaves every Template instance of the
\* input model as it was (subject, outcome, controllers, rate law), and a
\* template of the result that differs from the one in its place in the
\* input is a new instance.
C9_NoMutation ==
    calls >= 1 =>
        /\ \A oid \in DOMAIN before.heap : heap[oid] = before.heap[oid]
        /\ \A i \in DOMAIN template_model.templates :
               Resulting(i) # Original(i)
                   => template_model.templates[i] \notin DOMAIN before.heap

\* C9 witness: a call rewrote a ControlledConversion into a new instance
\* without its controller, and the original instance is still in the heap
C9_Witness ==
    /\ calls = 1
    /\ pc = "done"
    /\ \E i \in DOMAIN template_model.templates :
          /\ Original(i).cls = "ControlledConversion"
          /\ Resulting(i).cls = "NaturalConversion"
          /\ template_model.templates[i] \notin DOMAIN before.heap
          /\ heap[before.model.templates[i]].cls = "ControlledConversion"

-----------------------------------------------------------------------------
(* Properties of _extract_concept, read on the call's arguments            *)
(* (species_arg) and its outcome (result).                                 *)

\* the returned Concept carries the identifiers and context curated under key
ReturnsCurated(key) ==
    /\ ~result[1].raised
    /\ result[1].concept.identifiers = DictVal(grounding_map, key)[1]
    /\ result[1].concept.context = DictVal(grounding_map, key)[2]

\* the outcome is the one built from the species' annotations
ReturnsAnnotated ==
    result[1] = concept_from_annotations(species_arg[1].species, species_arg[1].model_id)

\* the key of the species: the model id with the species' name, or with
\* its id when the name contains a parenthesis
EffectiveKey ==
    <<species_arg[1].model_id,
      IF species_arg[1].species.name \in NamesWithParen
      THEN species_arg[1].species.id
      ELSE species_arg[1].species.name>>

\* C10 as stated: whenever (model_id, species name) is a key of the curated
\* grounding map, the returned Concept's identifiers and context are the
\* curated entry's, whatever the annotations of the species.
C10_CuratedBySpeciesName ==
    result # None
        /\ DictHas(grounding_map,
                   <<species_arg[1].model_id, species_arg[1].species.name>>)
    => ReturnsCurated(<<species_arg[1].model_id, species_arg[1].species.name>>)

\* C10 amended: whenever (model_id, n) is a key of the curated grounding
\* map, n being the species' name, or its id when the name contains '(',
\* the returned Concept's identifiers and context are the curated entry's,
\* whatever the annotations of the species; when that key is absent the
\* Concept is the one built from the annotations.
C10_CuratedByEffectiveName ==
    result # None =>
        IF DictHas(grounding_map, EffectiveKey)
        THEN ReturnsCurated(EffectiveKey)
        ELSE ReturnsAnnotated

\* C10 witness: a species whose annotation holds a bqbiol:is curie, and
\* whose key is curated, came back with the curated identifiers, which
\* differ from those of its annotation
C10_Witness ==
    /\ result # None
    /\ species_arg[1].species.annotated
    /\ species_arg[1].species.is # << >>
    /\ DictHas(grounding_map, EffectiveKey)
    /\ ReturnsCurated(EffectiveKey)
    /\ ~ReturnsAnnotated

-----------------------------------------------------------------------------
(* Properties of grounding_normalize, read on the Concept _extract_concept *)
(* builds from the annotations of the species (lines 716-724) and on the   *)
(* Concept it returns after grounding_normalize (line 725).                *)

\* the call went through the annotations of the species and returned
ThroughAnnotations ==
    /\ result # None
    /\ ~result[1].raised
    /\ species_arg[1].species.annotated
    /\ ~DictHas(grounding_map, EffectiveKey)

\* the identifiers and context the annotations give, before the Concept is built
AnnotatedGroundings ==
    with_fallback(
        species_arg[1].species,
        [list |-> DictFromList(fix_identifiers_list(species_arg[1].species.is).list),
         context |-> add_properties(SortedCuries(species_arg[1].species.properties), 1,
                                    fix_identifiers_list(species_arg[1].species.is).context)])

\* the Concept handed to grounding_normalize
Unnormalized ==
    built_concept(species_arg[1].species, species_arg[1].model_id, AnnotatedGroundings)

\* concept c has a swapped identifier or matches a special case
Matched(c) ==
    \/ \E i \in DOMAIN c.identifiers :
           \/ c.identifiers[i][1] = "ncit" /\ c.identifiers[i][2] \in IdsStarting000
           \/ c.identifiers[i][1] = "ido" /\ c.identifiers[i][2] \in IdsStartingC
    \/ get_curie(c)[1] = "" /\ DictEq(c.context, << <<"property", "ido:0000621">> >>)
    \/ get_curie(c) = <<"ido", "0000514">>
           /\ DictEq(c.context, << <<"property", "ido:0000468">> >>)
    \/ get_curie(c) = <<"ncit", "C171133">>
           /\ DictEq(c.context, << <<"property", "ido:0000621">> >>)
    \/ get_curie(c) = <<"ncit", "C168970">>

\* C11: grounding_normalize returns the identifiers and context of its
\* input for a concept that has no 'ncit' identifier starting with '000',
\* no 'ido' identifier starting with 'C' and matches no special case.
C11_UnmatchedUnchanged ==
    ThroughAnnotations /\ ~Matched(Unnormalized)
        => /\ result[1].concept.identifiers = Unnormalized.identifiers
           /\ result[1].concept.context = Unnormalized.context

\* C11 witness: an unmatched concept with the identifier ido:0000514 and a
\* property in its context came back from grounding_normalize as it went in
C11_Witness ==
    /\ ThroughAnnotations
    /\ ~Matched(Unnormalized)
    /\ get_curie(Unnormalized) = <<"ido", "0000514">>
    /\ Unnormalized.context # EmptyDict
    /\ result[1].concept = Unnormalized

-----------------------------------------------------------------------------
(* Further properties of SbmlProcessor.extract_model *)

\* C12: a name shared by two kinds of entry of the symbol table (parameter
\* id, compartment id, species id) is reported as an error: extract_model
\* does not return a model for such a document.
C12_CollisionsReported ==
    pc = "done" =>
        /\ DictKeys(sbml_model.parameters) \cap CompartmentIds(sbml_model) = {}
        /\ DictKeys(sbml_model.parameters) \cap SpeciesIds(sbml_model) = {}
        /\ CompartmentIds(sbml_model) \cap SpeciesIds(sbml_model) = {}

\* reaction i has exactly one reactant and one product after filtering,
\* and they differ
OneToOne(i) ==
    Len(ReactantsOf(i)) = 1 /\ Len(ProductsOf(i)) = 1 /\ Classifiable(i)

\* C13: a reversible reaction with one reactant A and one product B
\* contributes two templates, one converting A to B and one converting B
\* to A; a non-reversible reaction contributes at most one.
C13_ReversibleSplit ==
    \A i \in DOMAIN emitted :
        IF sbml_model.reactions[i].reversible
        THEN OneToOne(i) =>
                /\ Len(emitted[i]) = 2
                /\ \E j, k \in DOMAIN emitted[i] :
                      /\ emitted[i][j].subject = Some(ReactantsOf(i)[1])
                      /\ emitted[i][j].outcome = Some(ProductsOf(i)[1])
                      /\ emitted[i][k].subject = Some(ProductsOf(i)[1])
                      /\ emitted[i][k].outcome = Some(ReactantsOf(i)[1])
        ELSE Len(emitted[i]) <= 1

\* C14: a reaction whose kinetic law does not parse does not abort
\* extract_model: every reaction of the document is processed, and the
\* templates of the reaction whose law does not parse carry rate_law = None.
C14_UnparsedLawContinues ==
    pc # "input" /\ ~extract_concepts(sbml_model, grounding_map).raised
        /\ (\E i \in DOMAIN sbml_model.reactions : ~sbml_model.reactions[i].parses)
    => /\ DOMAIN emitted = DOMAIN sbml_model.reactions
       /\ DOMAIN log = DOMAIN sbml_model.reactions
       /\ \A i \in DOMAIN emitted :
              ~sbml_model.reactions[i].parses =>
                  \A j \in DOMAIN emitted[i] : emitted[i][j].rate_law = None

\* C15: a bilayer box with more than one input or more than one output is
\* skipped and does not abort the import: when every other box of the
\* document yields a template, template_model_from_bilayer returns a
\* model with the templates of those boxes.
C15_UnclassifiableSkipped ==
    pc # "input"
        /\ (\A b \in DOMAIN emitted :
               emitted[b].raised =>
                   \/ Len(bilayer_box(bilayer_json, b).inputs) > 1
                   \/ Len(bilayer_box(bilayer_json, b).outputs) > 1)
    => /\ pc = "done"
       /\ \A b \in DOMAIN emitted :
              ~emitted[b].raised =>
                  \E i \in DOMAIN template_model.templates :
                      heap[template_model.templates[i]] = emitted[b].template[1]

\* the species ids that the filter removes from the reactants, products
\* and declared modifiers of reaction i
RemovedOf(i) ==
    {id \in Range(sbml_model.reactions[i].reactants)
               \cup Range(sbml_model.reactions[i].products)
               \cup Range(sbml_model.reactions[i].modifiers) :
        id \in reporter_ids \/ HasCumulative(id)}

\* C16: nothing is dropped silently: the log of a reaction names every
\* species the filter removed from it, a reaction that contributes no
\* template has a log entry, and 'skipping reaction' is logged only for
\* reactions that contribute no template.
C16_NothingDroppedSilently ==
    \A i \in DOMAIN log :
        /\ \A id \in RemovedOf(i) :
               \E e \in DOMAIN log[i] :
                   extract_concepts(sbml_model, grounding_map).concepts[id]
                       \in Range(log[i][e].concepts)
        /\ emitted[i] = << >> => log[i] # << >>
        /\ (\E e \in DOMAIN log[i] :
                log[i][e].text = "skipping reaction with multiple inputs/outputs")
              => emitted[i] = << >>

\* the exponent of compartment comp in the kinetic law of reaction i as parsed
ParsedPower(i, comp) ==
    IF comp.id \in DOMAIN parse_rate_law(sbml_model, sbml_model.reactions[i]).pw
    THEN parse_rate_law(sbml_model, sbml_model.reactions[i]).pw[comp.id]
    ELSE 0

\* the numeric factor the compartments leave in the rate law of reaction i:
\* none for a compartment of volume 1 the law is linear in, the volume to
\* the power of its occurrences for any other
RECURSIVE VolumeFactor(_, _)
VolumeFactor(i, compartments) ==
    IF compartments = << >> THEN 1
    ELSE (IF Head(compartments).volume = 1 /\ ParsedPower(i, Head(compartments)) = 1
          THEN 1
          ELSE Pow(Head(compartments).volume, ParsedPower(i, Head(compartments))))
            * VolumeFactor(i, Tail(compartments))

\* C17: no compartment symbol occurs free in the rate law of an emitted
\* template: a compartment of volume 1 in which the law is linear is
\* removed without a numeric factor, any other is replaced by its volume.
C17_NoCompartmentSymbol ==
    \A i \in DOMAIN emitted :
        \A j \in DOMAIN emitted[i] :
            /\ DOMAIN emitted[i][j].rate_law[1].pw \cap CompartmentIds(sbml_model) = {}
            /\ emitted[i][j].rate_law[1].coef = VolumeFactor(i, sbml_model.compartments)

\* C18: each entry of the initials of the returned model is keyed by the
\* name of the Concept it binds, and two species with different concepts
\* have two entries.
C18_InitialsKeyedByConceptName ==
    pc = "done" =>
        /\ \A i \in DOMAIN template_model.initials :
               template_model.initials[i][2].concept.name = template_model.initials[i][1]
        /\ \A a, b \in SpeciesIds(sbml_model) :
               extract_concepts(sbml_model, grounding_map).concepts[a]
                   # extract_concepts(sbml_model, grounding_map).concepts[b]
               => \E i, j \in DOMAIN template_model.initials :
                      /\ i # j
                      /\ template_model.initials[i][2].concept
                            = extract_concepts(sbml_model, grounding_map).concepts[a]
                      /\ template_model.initials[j][2].concept
                            = extract_concepts(sbml_model, grounding_map).concepts[b]

\* the controllers of the original template i that the resulting one lacks
DroppedControllers(i) ==
    {c \in Range(ControllersOf(Original(i))) : c \notin Range(ControllersOf(Resulting(i)))}

\* C19: in the rate law of an emitted template every species of the
\* kinetic law occurs under its Concept name, whatever the name; and after
\* replace_constant_concepts the rate law of a template holds no symbol of
\* a species that was removed from its controllers.
C19_RateLawOverConceptNames ==
    /\ \A i \in DOMAIN emitted :
           \A j \in DOMAIN emitted[i] :
               \A id \in sbml_model.reactions[i].mentions :
                   extract_concepts(sbml_model, grounding_map).concepts[id].name
                       \in variables_from_sympy_expr(emitted[i][j].rate_law[1])
    /\ pc = "done" =>
           \A i \in DOMAIN template_model.templates :
               \A id \in SpeciesIds(sbml_model) :
                   extract_concepts(sbml_model, grounding_map).concepts[id]
                       \in DroppedControllers(i)
                   => all_locals(sbml_model, id)
                          \notin variables_from_sympy_expr(Resulting(i).rate_law[1])

-----------------------------------------------------------------------------
(* Properties of the Petri-net exporters *)

\* the position in model.variables of the variable with the given key
PositionOf(key) ==
    CHOOSE i \in DOMAIN compiled_model.variables : compiled_model.variables[i].key = key

\* the inputs and the outputs the PetriNetModel holds for transition idx
InputsOf(idx) == SelectSeq(petri_net[1].inputs, LAMBDA e : e.it = idx)

OutputsOf(idx) == SelectSeq(petri_net[1].outputs, LAMBDA e : e.ot = idx)

\* C20: in both Petri-net exporters the inputs of a transition are its
\* controllers followed by its consumed variables and its outputs are its
\* controllers followed by its produced variables, each named as the
\* exporter names the state of that variable: every controller occurrence
\* is once on each side, a consumed variable adds an input only and a
\* produced variable an output only.
C20_ControllersOnBothSides ==
    \A idx \in DOMAIN compiled_model.transitions :
        LET t == compiled_model.transitions[idx] IN
        /\ ~IsNone(petri_net) =>
              /\ Len(InputsOf(idx)) = Len(t.control) + Len(t.consumed)
              /\ Len(OutputsOf(idx)) = Len(t.control) + Len(t.produced)
              /\ \A i \in DOMAIN t.control :
                     /\ InputsOf(idx)[i].is = PositionOf(t.control[i])
                     /\ OutputsOf(idx)[i].os = PositionOf(t.control[i])
              /\ \A i \in DOMAIN t.consumed :
                     InputsOf(idx)[Len(t.control) + i].is = PositionOf(t.consumed[i])
              /\ \A i \in DOMAIN t.produced :
                     OutputsOf(idx)[Len(t.control) + i].os = PositionOf(t.produced[i])
        /\ ~IsNone(askenet_net) =>
              LET out == askenet_net[1].transitions[idx]
                  id(key) == askenet_net[1].states[PositionOf(key)].id
              IN /\ Len(out.input) = Len(t.control) + Len(t.consumed)
                 /\ Len(out.output) = Len(t.control) + Len(t.produced)
                 /\ \A i \in DOMAIN t.control :
                        /\ out.input[i] = id(t.control[i])
                        /\ out.output[i] = id(t.control[i])
                 /\ \A i \in DOMAIN t.consumed :
                        out.input[Len(t.control) + i] = id(t.consumed[i])
                 /\ \A i \in DOMAIN t.produced :
                        out.output[Len(t.control) + i] = id(t.produced[i])

\* C20 witness: both exporters have run on a Model with a transition that
\* has a controller, a consumed and a produced variable, after another
\* transition
C20_Witness ==
    /\ ~IsNone(petri_net)
    /\ ~IsNone(askenet_net)
    /\ Len(compiled_model.transitions) = 2
    /\ compiled_model.transitions[2].control # << >>
    /\ compiled_model.transitions[2].consumed # << >>
    /\ compiled_model.transitions[2].produced # << >>
    /\ compiled_model.transitions[2].consumed # compiled_model.transitions[2].produced

\* C21: within one export call every model variable gets exactly one handle
\* (its 1-based position in PetriNetModel, its state id in
\* AskeNetPetriNetModel) in insertion order of the variables, two different
\* variables never get the same handle, the state emitted for a variable
\* carries its handle, and every input and output of every transition is
\* the handle of an emitted state.
C21_OneHandlePerVariable ==
    /\ ~IsNone(petri_net) =>
          /\ DOMAIN petri_net[1].vmap = VariableKeys(compiled_model)
          /\ DOMAIN petri_net[1].states = DOMAIN compiled_model.variables
          /\ \A i \in DOMAIN compiled_model.variables :
                 petri_net[1].vmap[compiled_model.variables[i].key] = i
          /\ \A e \in DOMAIN petri_net[1].inputs :
                 petri_net[1].inputs[e].is \in DOMAIN petri_net[1].states
          /\ \A e \in DOMAIN petri_net[1].outputs :
                 petri_net[1].outputs[e].os \in DOMAIN petri_net[1].states
    /\ ~IsNone(askenet_net) =>
          /\ DOMAIN askenet_net[1].states = DOMAIN compiled_model.variables
          /\ \A i, j \in DOMAIN askenet_net[1].states :
                 i # j => askenet_net[1].states[i].id # askenet_net[1].states[j].id
          /\ \A idx \in DOMAIN askenet_net[1].transitions :
                 \A h \in Range(askenet_net[1].transitions[idx].input)
                            \cup Range(askenet_net[1].transitions[idx].output) :
                     \E i \in DOMAIN askenet_net[1].states :
                         askenet_net[1].states[i].id = h

\* C22: in both Petri-net exporters a transition whose template has no rate
\* law is emitted without any rate field, and a transition whose template
\* has a rate law is emitted with the string form and the math-markup form
\* of that rate law.
C22_RateFieldOnlyWithRateLaw ==
    \A idx \in DOMAIN compiled_model.transitions :
        LET rate_law == compiled_model.transitions[idx].template.rate_law IN
        /\ ~IsNone(petri_net) =>
              IF IsNone(rate_law)
              THEN DOMAIN petri_net[1].transitions[idx]
                       \cap {"mira_rate_law", "mira_rate_law_mathml", "mira_parameters"} = {}
              ELSE /\ {"mira_rate_law", "mira_rate_law_mathml"}
                         \subseteq DOMAIN petri_net[1].transitions[idx]
                   /\ petri_net[1].transitions[idx].mira_rate_law = <<"str", rate_law[1]>>
                   /\ petri_net[1].transitions[idx].mira_rate_law_mathml
                         = <<"mathml", rate_law[1]>>
        /\ ~IsNone(askenet_net) =>
              IF IsNone(rate_law)
              THEN "properties" \notin DOMAIN askenet_net[1].transitions[idx]
              ELSE /\ "properties" \in DOMAIN askenet_net[1].transitions[idx]
                   /\ askenet_net[1].transitions[idx].properties.rate.expression
                         = <<"str", rate_law[1]>>
                   /\ askenet_net[1].transitions[idx].properties.rate.expression_mathml
                         = <<"mathml", rate_law[1]>>

\* C22 witness: both exporters have run on a Model with a transition without
\* a rate law and a transition with one
C22_Witness ==
    /\ ~IsNone(petri_net)
    /\ ~IsNone(askenet_net)
    /\ \E i, j \in DOMAIN compiled_model.transitions :
           /\ IsNone(compiled_model.transitions[i].template.rate_law)
           /\ ~IsNone(compiled_model.transitions[j].template.rate_law)

\* C23: to_json of a constructed AskeNetPetriNetModel returns without
\* raising, and the payload holds the states, transitions and parameters
\* the constructor built, one per variable, transition and parameter of
\* the model.
C23_ToJsonReturnsPayload ==
    ~IsNone(result) =>
        /\ ~result[1].raised
        /\ {"states", "transitions", "parameters"} \subseteq DOMAIN result[1].value[1]
        /\ result[1].value[1].states = askenet_net[1].states
        /\ result[1].value[1].transitions = askenet_net[1].transitions
        /\ result[1].value[1].parameters = askenet_net[1].parameters
        /\ Len(result[1].value[1].states) = Len(compiled_model.variables)
        /\ Len(result[1].value[1].transitions) = Len(compiled_model.transitions)
        /\ Len(result[1].value[1].parameters) = Len(compiled_model.parameters)

-----------------------------------------------------------------------------
(* Further properties of template_model_from_bilayer *)

\* the variables (indices into Qin) the wires of a list attach to box b
WiredVariables(wires, b) ==
    LET mine == SelectSeq(wires, LAMBDA w : w[1] = b)
    IN [i \in DOMAIN mine |-> mine[i][2]]

\* the Win variables of box b that are not consumed by it, and those that
\* no consumed variable of the box shares the name with
ControlVariables(b) ==
    SelectSeq(WiredVariables(bilayer_json.Win, b),
              LAMBDA v : v \notin Range(WiredVariables(bilayer_json.Wn, b)))

ControlVariablesByName(b) ==
    SelectSeq(WiredVariables(bilayer_json.Win, b),
              LAMBDA v : \A u \in Range(WiredVariables(bilayer_json.Wn, b)) :
                           bilayer_json.Qin[u] # bilayer_json.Qin[v])

\* the template of box b in the returned model has the consumed variable as
\* subject, the produced one as outcome and the given variables as
\* controllers, and is a NaturalConversion when the box has one input, one
\* output and no controller
BoxBuiltFrom(b, control) ==
    LET t == heap[template_model.templates[b]]
        ins == WiredVariables(bilayer_json.Wn, b)
        outs == WiredVariables(bilayer_json.Wa, b)
        got == IF t.controller # None THEN <<t.controller[1].name>>
               ELSE [i \in DOMAIN t.controllers |-> t.controllers[i].name]
    IN /\ t.subject = (IF ins = << >> THEN None
                       ELSE Some(Concept(bilayer_json.Qin[ins[1]], EmptyDict, EmptyDict)))
       /\ t.outcome = (IF outs = << >> THEN None
                       ELSE Some(Concept(bilayer_json.Qin[outs[1]], EmptyDict, EmptyDict)))
       /\ got = [i \in DOMAIN control |-> bilayer_json.Qin[control[i]]]
       /\ Len(ins) = 1 /\ Len(outs) = 1 /\ control = << >> => t.cls = "NaturalConversion"

-----------------------------------------------------------------------------
(* Properties of template_model_from_pysd_model, read on `emitted`: the     *)
(* templates of each flow of the document.                                  *)

\* the stocks in whose INTEG argument the flow occurs negated, and those in
\* which it occurs not negated
NegatedIn(flow) ==
    {i \in DOMAIN pysd_model.stocks :
        \E t \in DOMAIN pysd_model.stocks[i].integ :
            pysd_model.stocks[i].integ[t] = [flow |-> flow, negated |-> TRUE]}

PositiveIn(flow) ==
    {i \in DOMAIN pysd_model.stocks :
        \E t \in DOMAIN pysd_model.stocks[i].integ :
            pysd_model.stocks[i].integ[t] = [flow |-> flow, negated |-> FALSE]}

\* C25: a flow that occurs negated in the accumulation expression of
\* exactly one stock and positively in none yields exactly one template,
\* whose subject is that stock and whose outcome is None; a flow that
\* occurs positively in exactly one stock and negated in none yields
\* exactly one template with that stock as outcome and no subject.
C25_OneSidedFlow ==
    \A j \in DOMAIN emitted :
        \A i \in DOMAIN pysd_model.stocks :
            /\ NegatedIn(pysd_model.auxiliaries[j].name) = {i}
                 /\ PositiveIn(pysd_model.auxiliaries[j].name) = {}
               => /\ Len(emitted[j]) = 1
                  /\ emitted[j][1].subject # None
                  /\ emitted[j][1].subject[1].name = pysd_model.stocks[i].name
                  /\ emitted[j][1].outcome = None
            /\ PositiveIn(pysd_model.auxiliaries[j].name) = {i}
                 /\ NegatedIn(pysd_model.auxiliaries[j].name) = {}
               => /\ Len(emitted[j]) = 1
                  /\ emitted[j][1].outcome # None
                  /\ emitted[j][1].outcome[1].name = pysd_model.stocks[i].name
                  /\ emitted[j][1].subject = None

\* C25 witness: the teacup model, a single flow negated in one stock whose
\* expression names the stock, and the model returned for it
C25_Witness ==
    /\ pc = "done"
    /\ Len(pysd_model.auxiliaries) = 1
    /\ NegatedIn(pysd_model.auxiliaries[1].name) = {1}
    /\ PositiveIn(pysd_model.auxiliaries[1].name) = {}
    /\ pysd_model.stocks[1].name \in pysd_model.auxiliaries[1].symbols
    /\ Len(template_model.templates) = 1

\* the controllers of a template, as names
ControllerNamesOf(t) ==
    (IF t.controller # None THEN {t.controller[1].name} ELSE {})
        \cup {t.controllers[i].name : i \in DOMAIN t.controllers}

\* C26: for every flow, every stock whose symbol occurs in the flow's rate
\* expression and which the flow does not consume is a controller of the
\* flow's template, whether the stock is the flow's outcome or a stock the
\* flow does not touch.
C26_StocksInRateAreControllers ==
    \A j \in DOMAIN emitted :
        \A k \in DOMAIN emitted[j] :
            \A i \in DOMAIN pysd_model.stocks :
                /\ pysd_model.stocks[i].name \in pysd_model.auxiliaries[j].symbols
                /\ i \notin NegatedIn(pysd_model.auxiliaries[j].name)
                => pysd_model.stocks[i].name \in ControllerNamesOf(emitted[j][k])

-----------------------------------------------------------------------------
(* The curated grounding map *)

\* C27: grounding_map is never modified after it is loaded: no call of
\* _extract_concept and no rewriting of the identifiers or context of a
\* Concept it returned changes an entry or a value of the map.
C27_GroundingMapReadOnly == [][grounding_map' = grounding_map]_vars

\* C27 witness: _extract_concept was called twice, the Concept it returned
\* from the curated entry of its species has had its identifiers rewritten
\* by the caller, and the entry still holds what the call returned
C27_Witness ==
    /\ calls = 2
    /\ ~IsNone(returned)
    /\ DictHas(grounding_map, EffectiveKey)
    /\ returned[1].concept.identifiers # DictVal(grounding_map, EffectiveKey)[1]
    /\ result[1].concept.identifiers = DictVal(grounding_map, EffectiveKey)[1]

-----------------------------------------------------------------------------
(* Further properties of replace_constant_concepts, read on the snapshot   *)
(* `before` of the model the last call was given.                          *)

\* the constant concepts of the model the call was given
ConstantsBefore == find_constant_concepts(before.heap, before.model)

\* C28: the result of replace_constant_concepts does not depend on the
\* order in which the set of constant concepts is processed: every order
\* gives the templates (variant, subject, outcome, controllers, rate law)
\* and the parameters that the call gave.
C28_OrderIndependent ==
    calls >= 1 /\ pc = "done" =>
        \A order \in Orders(ConstantsBefore) :
            LET r == replace_constant_concepts(before.heap, before.model, order)
            IN /\ ~r.raised
               /\ TemplatesOf(r.heap, r.model) = TemplatesOf(heap, template_model)
               /\ DictEq(r.model.parameters, template_model.parameters)

\* the template replace_constant_concepts keeps in place of h[oid] after
\* replace_controller_by_constant(h[oid], controller_name, value)
KeptTemplate(h, oid, controller_name, value) ==
    LET r == replace_controller_by_constant(h, oid, controller_name, value)
    IN IF r.ret = None THEN h[oid] ELSE r.heap[r.ret[1]]

\* C29: replace_controller_by_constant changes only the templates that
\* have the named concept as controller: for every other template the one
\* kept in the model has the same variant, subject, outcome, controllers
\* and rate law; and replace_constant_concepts preserves the number and
\* the order of the templates and the subject and outcome of each.
C29_OnlyReferencingTemplatesChange ==
    calls >= 1 /\ pc = "done" =>
        /\ \A i \in DOMAIN before.model.templates, n \in ConstantsBefore :
               n \notin Names(ControllersOf(Original(i)))
                   => KeptTemplate(before.heap, before.model.templates[i], n, 1)
                          = Original(i)
        /\ Len(template_model.templates) = Len(before.model.templates)
        /\ \A i \in DOMAIN before.model.templates :
               /\ Resulting(i).subject = Original(i).subject
               /\ Resulting(i).outcome = Original(i).outcome

-----------------------------------------------------------------------------
(* Further properties of grounding_normalize, read on the Concept handed   *)
(* to it (Unnormalized) and on the Concept _extract_concept returns.       *)

\* the identifiers hold both a swapped 'ncit' and a swapped 'ido' entry
BothSwapped(ids) ==
    /\ DictHas(ids, "ncit") /\ DictVal(ids, "ncit") \in IdsStarting000
    /\ DictHas(ids, "ido") /\ DictVal(ids, "ido") \in IdsStartingC

\* C30: grounding_normalize corrects swapped prefixes without losing an
\* identifier: when the identifiers hold both an 'ncit' id starting with
\* '000' and an 'ido' id starting with 'C', the result holds the first
\* under 'ido' and the second under 'ncit'; and no result holds an 'ncit'
\* id starting with '000' or an 'ido' id starting with 'C'.
C30_SwappedPrefixesCorrected ==
    ThroughAnnotations =>
        /\ BothSwapped(Unnormalized.identifiers)
               => /\ DictHas(result[1].concept.identifiers, "ido")
                  /\ DictVal(result[1].concept.identifiers, "ido")
                        = DictVal(Unnormalized.identifiers, "ncit")
                  /\ DictHas(result[1].concept.identifiers, "ncit")
                  /\ DictVal(result[1].concept.identifiers, "ncit")
                        = DictVal(Unnormalized.identifiers, "ido")
        /\ \A i \in DOMAIN result[1].concept.identifiers :
               LET id == result[1].concept.identifiers[i]
               IN /\ ~(id[1] = "ncit" /\ id[2] \in IdsStarting000)
                  /\ ~(id[1] = "ido" /\ id[2] \in IdsStartingC)

====
